---- MODULE Spec2Model ----
(***************************************************************************)
(* Model of the ChatRoom WebSocket server (server/websocket-server.js):    *)
(* the rooms / clients registries of ChatServer and its message handlers.  *)
(* Every handler of the server runs to completion on Node's single event   *)
(* loop, so each handler is one action.                                    *)
(***************************************************************************)
EXTENDS Integers, Sequences, FiniteSets, TLC

VARIABLES
    rooms,       \* ChatServer.rooms: roomCode -> sequence of connections (a JS Set, in insertion order)
    clients,     \* ChatServer.clients: connection -> [username, roomCode, lastSeen]
    readyState,  \* ws.readyState of every connection object
    now,         \* Date.now(), in minutes
    sent,        \* the frames written by the handler that ran last, in order: <<[to, ev]>>
    lastIn,      \* the event the last handler ran for: [kind, ws, msg, wasIn, wasNamed]
    removed,     \* history: the room codes that were deleted from rooms
    observing    \* whether the history is recorded

\* The browser client: WebSocketService (js/websocket-service.js) and
\* ChatService (js/chat-service.js) of one participant
VARIABLES
    sockets,            \* every WebSocket object made so far: id -> [readyState, handlers, onOpen, ...]
    socket,             \* WebSocketService.socket: the id of a socket, or NoSocket (null)
    isConnected,        \* WebSocketService.isConnected
    reconnectAttempts,  \* WebSocketService.reconnectAttempts
    heartbeatInterval,  \* whether the setInterval of startHeartbeat is active
    heartbeatTimeout,   \* whether the setTimeout that waits for the pong is pending
    reconnectTimers,    \* the pending setTimeout calls of attemptReconnect: a set of [attempt, delay]
    useWebSocket,       \* ChatService.useWebSocket
    webSocketConnected, \* ChatService.webSocketConnected
    chatIsConnected,    \* ChatService.isConnected
    currentRoom,        \* ChatService.currentRoom (Missing for null)
    currentUser,        \* ChatService.currentUser (Missing for null)
    onlineUsers,        \* ChatService.onlineUsers
    typingUsers,        \* ChatService.typingUsers
    messages,           \* the length of ChatService.messages
    replyTimers,        \* the number of pending timers of simulateIncomingMessages
    pc,                 \* where the running ChatService.connect call waits: idle, ws, delay
    wire,               \* the frames the last client step sent: <<[socket, type, msg]>>
    saved,              \* the messages the last client step passed to storage.saveMessage: <<[room, kind]>>
    lastEv              \* the last client step: [kind, socket, ret]

\* The connection between the participant's WebSocket and the server
VARIABLES
    inbox,              \* the frames of the server on their way to the participant's socket
    outbox,             \* the frames of the participant on their way to the server
    linked              \* whether the participant's socket is a connection of the modelled server

cvars == <<sockets, socket, isConnected, reconnectAttempts, heartbeatInterval, heartbeatTimeout,
           reconnectTimers, useWebSocket, webSocketConnected, chatIsConnected, currentRoom,
           currentUser, onlineUsers, typingUsers, messages, replyTimers, pc, wire, saved, lastEv>>

svars == <<rooms, clients, readyState, now, sent, lastIn, removed, observing>>

lvars == <<inbox, outbox, linked>>

vars == <<rooms, clients, readyState, now, sent, lastIn, removed, observing, cvars, lvars>>

----------------------------------------------------------------------------
(* Bounds of the model *)

MaxTime == 6           \* the last moment, in minutes, at which the clock is read

(* Program constants, in minutes (60000 ms, the period of the cleanup timer) *)
Timeout == 5           \* const timeout = 5 * 60 * 1000

\* the moments at which the clock is read
Times == {0, Timeout, MaxTime}

Sessions == {"c1", "c2", "c3"}
NoClient == "null"                       \* excludeClient = null
RoomCodes == {"AB12CD", "ab12cd"}
Missing == ""                            \* an absent (undefined) or empty field: falsy
ValidContents == {<<" ", "h", "i", " ">>}
ClientIds == {"m1"}
GenIds == {"g1"}

----------------------------------------------------------------------------
(* Events (the JSON envelopes), as records with the same fields *)

Ev == [type |-> "", username |-> "", roomCode |-> "", users |-> <<>>,
       id |-> "", content |-> <<>>, isTyping |-> FALSE, message |-> ""]

ConnectedEv == [Ev EXCEPT !.type = "connected", !.message = "Connected to ChatRoom server"]
RoomJoinedEv(roomCode, username) ==
    [Ev EXCEPT !.type = "room_joined", !.roomCode = roomCode, !.username = username]
UserJoinedEv(username) == [Ev EXCEPT !.type = "user_joined", !.username = username]
UserLeftEv(username) == [Ev EXCEPT !.type = "user_left", !.username = username]
UserListEv(users) == [Ev EXCEPT !.type = "user_list", !.users = users]
ChatEv(id, username, content) ==
    [Ev EXCEPT !.type = "chat_message", !.id = id, !.username = username, !.content = content]
TypingEv(username, isTyping) ==
    [Ev EXCEPT !.type = "typing", !.username = username, !.isTyping = isTyping]
PongEv == [Ev EXCEPT !.type = "pong"]
ErrorEv(errorMessage) == [Ev EXCEPT !.type = "error", !.message = errorMessage]

----------------------------------------------------------------------------
(* String.prototype.trim on a content given as a sequence of characters *)

RECURSIVE TrimStart(_)
TrimStart(s) ==
    IF s = <<>> THEN s
    ELSE IF Head(s) = " " THEN TrimStart(Tail(s)) ELSE s

RECURSIVE TrimEnd(_)
TrimEnd(s) ==
    IF s = <<>> THEN s
    ELSE IF s[Len(s)] = " " THEN TrimEnd(SubSeq(s, 1, Len(s) - 1)) ELSE s

Trim(s) == TrimEnd(TrimStart(s))

----------------------------------------------------------------------------
(* Room codes and display names are strings; CharsOf gives the characters  *)
(* of every string the model uses, so that the functions on strings are    *)
(* computed character by character.                                        *)

CharsOf(str) ==
    CASE str = "AB12CD" -> <<"A", "B", "1", "2", "C", "D">>
      [] str = "ab12cd" -> <<"a", "b", "1", "2", "c", "d">>
      [] str = "XY" -> <<"X", "Y">>
      [] str = "Alice" -> <<"A", "l", "i", "c", "e">>
      [] str = "Bob" -> <<"B", "o", "b">>
      [] str = "A@" -> <<"A", "@">>
      [] OTHER -> <<>>

LowerLetters == <<"a", "b", "c", "d", "e", "f", "g", "h", "i", "j", "k", "l", "m",
                  "n", "o", "p", "q", "r", "s", "t", "u", "v", "w", "x", "y", "z">>
UpperLetters == <<"A", "B", "C", "D", "E", "F", "G", "H", "I", "J", "K", "L", "M",
                  "N", "O", "P", "Q", "R", "S", "T", "U", "V", "W", "X", "Y", "Z">>
Digits == {"0", "1", "2", "3", "4", "5", "6", "7", "8", "9"}
Range(s) == {s[i] : i \in 1..Len(s)}

\* String.prototype.toUpperCase, on the characters of a string
toUpperCase(chars) ==
    [i \in 1..Len(chars) |->
        IF chars[i] \in Range(LowerLetters)
        THEN UpperLetters[CHOOSE k \in 1..Len(LowerLetters) : LowerLetters[k] = chars[i]]
        ELSE chars[i]]

\* validateRoomCode of js/app.js: /^[A-Z0-9]{6}$/ on the code in upper case
validateRoomCode(code) ==
    /\ code # ""
    /\ LET upper == toUpperCase(CharsOf(code))
       IN  /\ Len(upper) = 6
           /\ \A i \in 1..Len(upper) : upper[i] \in Range(UpperLetters) \cup Digits

\* validateUsername of js/app.js: 1 to 20 characters after trim, each of
\* /[a-zA-Z0-9\s\-_]/
validateUsername(username) ==
    /\ username # ""
    /\ LET trimmed == Trim(CharsOf(username))
       IN  /\ Len(trimmed) >= 1
           /\ Len(trimmed) <= 20
           /\ \A i \in 1..Len(trimmed) :
                 trimmed[i] \in Range(LowerLetters) \cup Range(UpperLetters) \cup Digits
                                  \cup {" ", "-", "_"}

----------------------------------------------------------------------------
(* JS Set and Map operations used by the server *)

SetAdd(set, x) == IF \E i \in 1..Len(set) : set[i] = x THEN set ELSE Append(set, x)
\* faulty variant: room.delete(ws) is lost
SetDelete_Lost(set, x) == set
SetDelete(set, x) == SelectSeq(set, LAMBDA y : y # x)
SetHas(set, x) == \E i \in 1..Len(set) : set[i] = x
MapDelete(map, k) == [x \in DOMAIN map \ {k} |-> map[x]]
MapSet(map, k, v) == [x \in DOMAIN map \cup {k} |-> IF x = k THEN v ELSE map[x]]

MapSeq(s, F(_)) == [i \in 1..Len(s) |-> F(s[i])]

----------------------------------------------------------------------------
(* ChatServer.send / broadcastToRoom / sendError / getRoomUsers.           *)
(* `out` is the sequence of frames written so far by the running handler.  *)

send(out, ws, ev) ==
    IF readyState[ws] = "OPEN" THEN Append(out, [to |-> ws, ev |-> ev]) ELSE out

sendError(out, ws, errorMessage) == send(out, ws, ErrorEv(errorMessage))

\* faulty variant: client.readyState is not looked at
broadcastToRoom_NoCheck(rms, out, roomCode, ev, excludeClient) ==
    IF roomCode \notin DOMAIN rms THEN out
    ELSE LET targets == SelectSeq(rms[roomCode], LAMBDA c : c # excludeClient)
         IN  out \o MapSeq(targets, LAMBDA c : [to |-> c, ev |-> ev])

broadcastToRoom(rms, out, roomCode, ev, excludeClient) ==
    IF roomCode \notin DOMAIN rms THEN out
    ELSE LET targets == SelectSeq(rms[roomCode],
                          LAMBDA c : c # excludeClient /\ readyState[c] = "OPEN")
         IN  out \o MapSeq(targets, LAMBDA c : [to |-> c, ev |-> ev])

getRoomUsers(rms, cls, roomCode) ==
    IF roomCode \notin DOMAIN rms THEN <<>>
    ELSE MapSeq(SelectSeq(rms[roomCode], LAMBDA c : c \in DOMAIN cls),
                LAMBDA c : cls[c].username)

----------------------------------------------------------------------------
(* ChatServer.leaveCurrentRoom, on the server state S = [rooms, clients, out] *)

\* faulty variant: the room that became empty stays in the map
leaveCurrentRoom_KeepEmpty(S, ws) ==
    IF ws \notin DOMAIN S.clients THEN S
    ELSE LET roomCode == S.clients[ws].roomCode
         IN  IF roomCode \notin DOMAIN S.rooms THEN S
             ELSE [S EXCEPT !.rooms[roomCode] = SelectSeq(@, LAMBDA y : y # ws)]

\* faulty variant: the updated user list is not broadcast after user_left
leaveCurrentRoom_NoList(S, ws) ==
    IF ws \notin DOMAIN S.clients THEN S
    ELSE LET username == S.clients[ws].username
             roomCode == S.clients[ws].roomCode
         IN  IF roomCode \notin DOMAIN S.rooms THEN S
             ELSE LET room == SelectSeq(S.rooms[roomCode], LAMBDA y : y # ws)
                  IN  IF Len(room) = 0
                      THEN [S EXCEPT !.rooms = MapDelete(S.rooms, roomCode)]
                      ELSE LET rms == [S.rooms EXCEPT ![roomCode] = room]
                           IN  [S EXCEPT !.rooms = rms,
                                         !.out = broadcastToRoom(rms, S.out, roomCode,
                                                    UserLeftEv(username), NoClient)]

leaveCurrentRoom(S, ws) ==
    IF ws \notin DOMAIN S.clients THEN S
    ELSE LET username == S.clients[ws].username
             roomCode == S.clients[ws].roomCode
         IN  IF roomCode \notin DOMAIN S.rooms THEN S
             ELSE LET room == SetDelete(S.rooms[roomCode], ws)
                  IN  IF Len(room) = 0
                      THEN [S EXCEPT !.rooms = MapDelete(S.rooms, roomCode)]
                      ELSE LET rms == [S.rooms EXCEPT ![roomCode] = room]
                               out1 == broadcastToRoom(rms, S.out, roomCode,
                                                       UserLeftEv(username), NoClient)
                               roomUsers == getRoomUsers(rms, S.clients, roomCode)
                               out2 == broadcastToRoom(rms, out1, roomCode,
                                                       UserListEv(roomUsers), NoClient)
                           IN  [S EXCEPT !.rooms = rms, !.out = out2]

----------------------------------------------------------------------------
(* The message handlers.  Each takes the server state S = [rooms, clients, *)
(* out] before the handler and yields the state after it.                  *)

\* faulty variant: the user list is broadcast before user_joined
handleJoinRoom_ListFirst(S, ws, message) ==
    LET roomCode == message.roomCode
        username == message.username
    IN  IF roomCode = Missing \/ username = Missing
        THEN [S EXCEPT !.out = sendError(S.out, ws, "Room code and username are required")]
        ELSE LET S1 == leaveCurrentRoom(S, ws)
                 rms0 == IF roomCode \in DOMAIN S1.rooms THEN S1.rooms
                         ELSE MapSet(S1.rooms, roomCode, <<>>)
                 rms == [rms0 EXCEPT ![roomCode] = SetAdd(@, ws)]
                 cls == MapSet(S1.clients, ws,
                               [username |-> username, roomCode |-> roomCode, lastSeen |-> now])
                 roomUsers == getRoomUsers(rms, cls, roomCode)
                 out1 == send(S1.out, ws, RoomJoinedEv(roomCode, username))
                 out2 == send(out1, ws, UserListEv(roomUsers))
                 out3 == broadcastToRoom(rms, out2, roomCode, UserListEv(roomUsers), NoClient)
                 out4 == broadcastToRoom(rms, out3, roomCode, UserJoinedEv(username), ws)
             IN  [rooms |-> rms, clients |-> cls, out |-> out4]

\* faulty variant: the previous room is left before the fields are looked at
handleJoinRoom_LeaveFirst(S, ws, message) ==
    LET roomCode == message.roomCode
        username == message.username
        S1 == leaveCurrentRoom(S, ws)
    IN  IF roomCode = Missing \/ username = Missing
        THEN [S1 EXCEPT !.out = sendError(S1.out, ws, "Room code and username are required")]
        ELSE LET rms0 == IF roomCode \in DOMAIN S1.rooms THEN S1.rooms
                         ELSE MapSet(S1.rooms, roomCode, <<>>)
                 rms == [rms0 EXCEPT ![roomCode] = SetAdd(@, ws)]
                 cls == MapSet(S1.clients, ws,
                               [username |-> username, roomCode |-> roomCode, lastSeen |-> now])
                 out1 == send(S1.out, ws, RoomJoinedEv(roomCode, username))
                 out2 == broadcastToRoom(rms, out1, roomCode, UserJoinedEv(username), ws)
                 roomUsers == getRoomUsers(rms, cls, roomCode)
                 out3 == send(out2, ws, UserListEv(roomUsers))
                 out4 == broadcastToRoom(rms, out3, roomCode, UserListEv(roomUsers), NoClient)
             IN  [rooms |-> rms, clients |-> cls, out |-> out4]

handleJoinRoom(S, ws, message) ==
    LET roomCode == message.roomCode
        username == message.username
    IN  IF roomCode = Missing \/ username = Missing
        THEN [S EXCEPT !.out = sendError(S.out, ws, "Room code and username are required")]
        ELSE LET S1 == leaveCurrentRoom(S, ws)
                 rms0 == IF roomCode \in DOMAIN S1.rooms THEN S1.rooms
                         ELSE MapSet(S1.rooms, roomCode, <<>>)
                 rms == [rms0 EXCEPT ![roomCode] = SetAdd(@, ws)]
                 cls == MapSet(S1.clients, ws,
                               [username |-> username, roomCode |-> roomCode, lastSeen |-> now])
                 out1 == send(S1.out, ws, RoomJoinedEv(roomCode, username))
                 out2 == broadcastToRoom(rms, out1, roomCode, UserJoinedEv(username), ws)
                 roomUsers == getRoomUsers(rms, cls, roomCode)
                 out3 == send(out2, ws, UserListEv(roomUsers))
                 out4 == broadcastToRoom(rms, out3, roomCode, UserListEv(roomUsers), NoClient)
             IN  [rooms |-> rms, clients |-> cls, out |-> out4]

\* faulty variant: the chat message is not echoed to its sender
handleChatMessage_NoEcho(S, ws, message, generated) ==
    IF ws \notin DOMAIN S.clients \/ Trim(message.content) = <<>> THEN S
    ELSE [S EXCEPT !.out = broadcastToRoom(S.rooms, S.out, S.clients[ws].roomCode,
                              ChatEv(IF message.id # Missing THEN message.id ELSE generated,
                                     S.clients[ws].username, Trim(message.content)), ws)]

\* faulty variant: the room is taken from the inbound message
handleChatMessage_ToNamedRoom(S, ws, message, generated) ==
    IF ws \notin DOMAIN S.clients \/ Trim(message.content) = <<>> THEN S
    ELSE [S EXCEPT !.out = broadcastToRoom(S.rooms, S.out, message.roomCode,
                              ChatEv(IF message.id # Missing THEN message.id ELSE generated,
                                     S.clients[ws].username, Trim(message.content)),
                              NoClient)]

\* faulty variant: a sender that is in no room posts to the room its message names
handleChatMessage_Outsider(S, ws, message, generated) ==
    IF message.content = <<>> \/ Trim(message.content) = <<>>
    THEN [S EXCEPT !.out = sendError(S.out, ws, IF ws \in DOMAIN S.clients
                                                THEN "Message content is required"
                                                ELSE "Not in a room")]
    ELSE LET joined == ws \in DOMAIN S.clients
         IN  [S EXCEPT !.out = broadcastToRoom(S.rooms, S.out,
                                   IF joined THEN S.clients[ws].roomCode ELSE message.roomCode,
                                   ChatEv(IF message.id # Missing THEN message.id ELSE generated,
                                          IF joined THEN S.clients[ws].username
                                          ELSE message.username,
                                          Trim(message.content)),
                                   NoClient)]

\* faulty variant: a content of blanks only is not refused
handleChatMessage_NoTrim(S, ws, message, generated) ==
    IF ws \notin DOMAIN S.clients
    THEN [S EXCEPT !.out = sendError(S.out, ws, "Not in a room")]
    ELSE IF message.content = <<>>
         THEN [S EXCEPT !.out = sendError(S.out, ws, "Message content is required")]
         ELSE [S EXCEPT !.out = broadcastToRoom(S.rooms, S.out, S.clients[ws].roomCode,
                                   ChatEv(IF message.id # Missing THEN message.id ELSE generated,
                                          S.clients[ws].username, Trim(message.content)),
                                   NoClient)]

\* faulty variant: the event carries the username of the inbound message
handleChatMessage_NamedByMessage(S, ws, message, generated) ==
    IF ws \notin DOMAIN S.clients
    THEN [S EXCEPT !.out = sendError(S.out, ws, "Not in a room")]
    ELSE IF message.content = <<>> \/ Trim(message.content) = <<>>
         THEN [S EXCEPT !.out = sendError(S.out, ws, "Message content is required")]
         ELSE [S EXCEPT !.out = broadcastToRoom(S.rooms, S.out, S.clients[ws].roomCode,
                                   ChatEv(IF message.id # Missing THEN message.id ELSE generated,
                                          IF message.username # Missing THEN message.username
                                          ELSE S.clients[ws].username,
                                          Trim(message.content)),
                                   NoClient)]

\* faulty variant: a chat message counts as a sign of life
handleChatMessage_Seen(S, ws, message, generated) ==
    IF ws \notin DOMAIN S.clients
    THEN [S EXCEPT !.out = sendError(S.out, ws, "Not in a room")]
    ELSE IF message.content = <<>> \/ Trim(message.content) = <<>>
         THEN [S EXCEPT !.out = sendError(S.out, ws, "Message content is required")]
         ELSE [S EXCEPT !.out = broadcastToRoom(S.rooms, S.out, S.clients[ws].roomCode,
                                   ChatEv(IF message.id # Missing THEN message.id ELSE generated,
                                          S.clients[ws].username, Trim(message.content)),
                                   NoClient),
                        !.clients[ws].lastSeen = now]

\* generated: the value generateId() returns if it is called
handleChatMessage(S, ws, message, generated) ==
    IF ws \notin DOMAIN S.clients
    THEN [S EXCEPT !.out = sendError(S.out, ws, "Not in a room")]
    ELSE LET client == S.clients[ws]
             content == message.content
         IN  IF content = <<>> \/ Trim(content) = <<>>
             THEN [S EXCEPT !.out = sendError(S.out, ws, "Message content is required")]
             ELSE LET chatMessage ==
                          ChatEv(IF message.id # Missing THEN message.id ELSE generated,
                                 client.username, Trim(content))
                  IN  [S EXCEPT !.out = broadcastToRoom(S.rooms, S.out, client.roomCode,
                                                        chatMessage, NoClient)]

\* faulty variant: the typing event is broadcast to the whole room
handleTyping_ToAll(S, ws, message) ==
    IF ws \notin DOMAIN S.clients THEN S
    ELSE [S EXCEPT !.out = broadcastToRoom(S.rooms, S.out, S.clients[ws].roomCode,
                              TypingEv(S.clients[ws].username, message.isTyping), NoClient)]

handleTyping(S, ws, message) ==
    IF ws \notin DOMAIN S.clients THEN S
    ELSE LET client == S.clients[ws]
             typingMessage == TypingEv(client.username, message.isTyping)
         IN  [S EXCEPT !.out = broadcastToRoom(S.rooms, S.out, client.roomCode,
                                               typingMessage, ws)]

handlePing(S, ws, message) ==
    LET out1 == send(S.out, ws, PongEv)
    IN  IF ws \in DOMAIN S.clients
        THEN [S EXCEPT !.out = out1, !.clients[ws].lastSeen = now]
        ELSE [S EXCEPT !.out = out1]

handleMessage(S, ws, message, generated) ==
    CASE message.type = "join_room" -> handleJoinRoom(S, ws, message)
      [] message.type = "chat_message" -> handleChatMessage(S, ws, message, generated)
      [] message.type = "typing" -> handleTyping(S, ws, message)
      [] message.type = "ping" -> handlePing(S, ws, message)
      [] OTHER -> S     \* console.log('Unknown message type')

\* faulty variant: the entry of the clients table is kept
handleDisconnection_KeepClient(S, ws) ==
    IF ws \in DOMAIN S.clients THEN leaveCurrentRoom(S, ws) ELSE S

handleDisconnection(S, ws) ==
    LET S1 == IF ws \in DOMAIN S.clients THEN leaveCurrentRoom(S, ws) ELSE S
    IN  [S1 EXCEPT !.clients = MapDelete(S1.clients, ws)]

---------------------------------------------------------------------------------------------------------------------------------------------------
(* Inbound frames *)

Msg == [type |-> "", roomCode |-> Missing, username |-> Missing,
        content |-> <<>>, id |-> Missing, isTyping |-> FALSE]

\* the display names each participant uses
NamesOf == [c \in Sessions |->
              CASE c = "c1" -> {"Alice"}
                [] c = "c2" -> {"Alice", "Bob"}
                [] OTHER -> {"Bob"}]

JoinMsgs(ws) == {[Msg EXCEPT !.type = "join_room", !.roomCode = r, !.username = u] :
                    r \in RoomCodes, u \in NamesOf[ws]}
ChatMsgs == {[Msg EXCEPT !.type = "chat_message", !.roomCode = r, !.content = c, !.id = i] :
                r \in RoomCodes, c \in ValidContents, i \in ClientIds \cup {Missing}}
TypingMsgs == {[Msg EXCEPT !.type = "typing", !.roomCode = r, !.isTyping = b] :
                  r \in RoomCodes, b \in BOOLEAN}
PingMsgs == {[Msg EXCEPT !.type = "ping"]}

\* the frames of the error paths: joins into one room, joins the join form
\* of the client would refuse (a short code, a name with '@', a field
\* missing), chat frames with and without content, a typing frame and a
\* frame of a type the server does not know
OneRoomJoinMsgs(ws) == {m \in JoinMsgs(ws) : m.roomCode = "AB12CD"}
InvalidJoinMsgs(ws) ==
    {[Msg EXCEPT !.type = "join_room", !.roomCode = r, !.username = u] :
        r \in {"XY", Missing}, u \in NamesOf[ws]}
    \cup {[Msg EXCEPT !.type = "join_room", !.roomCode = "AB12CD", !.username = u] :
            u \in {"A@", Missing}}
BlankContents == {<<>>, <<" ", " ">>}
BlankChatMsgs == {[Msg EXCEPT !.type = "chat_message", !.roomCode = "AB12CD", !.content = c] :
                     c \in BlankContents}
OneChatMsgs == {m \in ChatMsgs : m.roomCode = "AB12CD" /\ m.id = Missing}
OneTypingMsgs == {m \in TypingMsgs : m.roomCode = "AB12CD" /\ m.isTyping}
\* chat and typing frames that name a sender, as the frames of the client do
NamedMsgs == {[m EXCEPT !.username = u] : m \in OneChatMsgs \cup OneTypingMsgs,
                                          u \in {"Alice", "Bob"}}
KnownTypes == {"join_room", "chat_message", "typing", "ping"}
UnknownMsgs == {[Msg EXCEPT !.type = "leave_room"]}

----------------------------------------------------------------------------
(* The browser client.  C is the state of WebSocketService and ChatService *)
(* as a record with the fields of cvars; every operator takes the state    *)
(* before and yields the state after.                                      *)

MaxSockets == 2        \* the WebSocket objects one participant makes
MaxMessages == 2       \* the entries ChatService.messages holds at most
MaxInbox == 2          \* the frames on their way to the participant when another connection acts
MaxReplies == 1        \* the timers of simulateIncomingMessages pending at most

maxReconnectAttempts == 5      \* this.maxReconnectAttempts = 5
reconnectDelay == 1000         \* this.reconnectDelay = 1000 (ms)

NoSocket == 0                            \* this.socket = null
SocketIds == 1..MaxSockets
NormalClosure == 1000
AbnormalClosure == 1006                  \* any code but 1000
CloseCodes == {NormalClosure, AbnormalClosure}
simulatedUsers == {"Alice", "Bob", "Charlie", "Diana"}
Strings == {"AB12CD", "ab12cd", "XY", "Alice", "Bob", "A@", ""}

\* the string with the given characters
StringOf(chars) == CHOOSE str \in Strings : CharsOf(str) = chars

RECURSIVE Pow(_, _)
Pow(b, e) == IF e = 0 THEN 1 ELSE b * Pow(b, e - 1)

\* a WebSocket object: handlers = handleOpen, handleMessage, handleClose,
\* handleError are registered; onOpen = the listeners onOpen, onError of
\* the promise of connect() are registered; timeout = the 10 s timer of
\* that promise is pending; awaited = ChatService.connect awaits the
\* promise, which is not settled; join = whether join_room was sent on the
\* socket and room_joined came back; roomCode, username = the arguments of
\* connect() that onOpen has in its closure
NoWebSocket == [readyState |-> "NONE", handlers |-> FALSE, onOpen |-> FALSE,
                timeout |-> FALSE, awaited |-> FALSE, join |-> "none",
                roomCode |-> Missing, username |-> Missing]
NewWebSocket == [NoWebSocket EXCEPT !.readyState = "CONNECTING", !.handlers = TRUE,
                                    !.onOpen = TRUE, !.timeout = TRUE]

ClientInit ==
    /\ sockets = [k \in SocketIds |-> NoWebSocket]
    /\ socket = NoSocket
    /\ isConnected = FALSE
    /\ reconnectAttempts = 0
    /\ heartbeatInterval = FALSE
    /\ heartbeatTimeout = FALSE
    /\ reconnectTimers = {}
    /\ useWebSocket = TRUE
    /\ webSocketConnected = FALSE
    /\ chatIsConnected = FALSE
    /\ currentRoom = Missing
    /\ currentUser = Missing
    /\ onlineUsers = {}
    /\ typingUsers = {}
    /\ messages = 0
    /\ replyTimers = 0
    /\ pc = "idle"
    /\ wire = <<>>
    /\ saved = <<>>
    /\ lastEv = [kind |-> "init", socket |-> NoSocket, ret |-> "none"]

Client ==
    [sockets |-> sockets, socket |-> socket, isConnected |-> isConnected,
     reconnectAttempts |-> reconnectAttempts, heartbeatInterval |-> heartbeatInterval,
     heartbeatTimeout |-> heartbeatTimeout, reconnectTimers |-> reconnectTimers,
     useWebSocket |-> useWebSocket, webSocketConnected |-> webSocketConnected,
     chatIsConnected |-> chatIsConnected, currentRoom |-> currentRoom,
     currentUser |-> currentUser, onlineUsers |-> onlineUsers, typingUsers |-> typingUsers,
     messages |-> messages, replyTimers |-> replyTimers, pc |-> pc, wire |-> <<>>,
     saved |-> <<>>, inbox |-> inbox]

(* WebSocketService *)

\* sendMessage returns whether the frame was written
CanSend(C) == C.socket # NoSocket /\ C.sockets[C.socket].readyState = "OPEN"

WsSendMessage(C, message) ==
    IF ~ CanSend(C) THEN C
    ELSE [C EXCEPT !.wire = Append(@, [socket |-> C.socket, type |-> message.type,
                                       msg |-> message]),
                   !.sockets[C.socket].join = IF message.type = "join_room" THEN "sent" ELSE @]

\* the frames of the client; generateId gives the id of a chat frame
OwnId == "m1"
JoinRoomMsg(roomCode, username) ==
    [Msg EXCEPT !.type = "join_room", !.roomCode = roomCode, !.username = username]
sendChatMessage(C, content, roomCode, username) ==
    WsSendMessage(C, [Msg EXCEPT !.type = "chat_message", !.content = content,
                                 !.roomCode = roomCode, !.username = username, !.id = OwnId])
sendTypingIndicator(C, isTyping, roomCode, username) ==
    WsSendMessage(C, [Msg EXCEPT !.type = "typing", !.isTyping = isTyping,
                                 !.roomCode = roomCode, !.username = username])

stopHeartbeat(C) == [C EXCEPT !.heartbeatInterval = FALSE, !.heartbeatTimeout = FALSE]

startHeartbeat(C) == [stopHeartbeat(C) EXCEPT !.heartbeatInterval = TRUE]

\* the one connection listener is that of ChatService.setupWebSocketListeners
notifyConnectionListeners(C, connected) == [C EXCEPT !.webSocketConnected = connected]

WsDisconnect(C) ==
    LET C1 == IF C.socket = NoSocket THEN C
              ELSE [stopHeartbeat(C) EXCEPT
                       !.sockets[C.socket].handlers = FALSE,
                       !.sockets[C.socket].readyState = IF @ = "OPEN" THEN "CLOSING" ELSE @,
                       !.socket = NoSocket]
    IN  notifyConnectionListeners([C1 EXCEPT !.isConnected = FALSE, !.reconnectAttempts = 0],
                                  FALSE)

\* connect() up to its return of the promise; k is the new WebSocket
WsConnect(C, k, roomCode, username) ==
    LET C1 == IF CanSend(C) THEN WsDisconnect(C) ELSE C
    IN  [C1 EXCEPT !.sockets[k] = [NewWebSocket EXCEPT !.roomCode = roomCode,
                                                       !.username = username],
                   !.socket = k]

WsHandleOpen(C) ==
    notifyConnectionListeners(
        startHeartbeat([C EXCEPT !.isConnected = TRUE, !.reconnectAttempts = 0]), TRUE)

\* faulty variant: the reconnect delay grows by one base delay per attempt
attemptReconnect_Linear(C) ==
    [C EXCEPT !.reconnectAttempts = @ + 1,
              !.reconnectTimers = @ \cup {[attempt |-> C.reconnectAttempts + 1,
                                           delay |-> reconnectDelay * (C.reconnectAttempts + 1)]}]

attemptReconnect(C) ==
    LET attempts == C.reconnectAttempts + 1
        delay == reconnectDelay * Pow(2, attempts - 1)
    IN  [C EXCEPT !.reconnectAttempts = attempts,
                  !.reconnectTimers = @ \cup {[attempt |-> attempts, delay |-> delay]}]

\* faulty variant: a reconnect is attempted however many were made
WsHandleClose_NoBudget(C, code) ==
    LET C1 == notifyConnectionListeners(stopHeartbeat([C EXCEPT !.isConnected = FALSE]), FALSE)
    IN  IF code # NormalClosure THEN attemptReconnect(C1) ELSE C1

WsHandleClose(C, code) ==
    LET C1 == notifyConnectionListeners(stopHeartbeat([C EXCEPT !.isConnected = FALSE]), FALSE)
    IN  IF code # NormalClosure /\ C1.reconnectAttempts < maxReconnectAttempts
        THEN attemptReconnect(C1) ELSE C1

\* faulty variant: the pong does not cancel the pending timeout
handlePong_Kept(C) == C

handlePong(C) == [C EXCEPT !.heartbeatTimeout = FALSE]

(* ChatService *)

\* addMessage pushes one message; kind tells what the message is
addMessage(C, kind) == [C EXCEPT !.messages = @ + 1]

\* storage.saveMessage(this.currentRoom, message)
saveMessage(C, kind) == [C EXCEPT !.saved = Append(@, [room |-> C.currentRoom, kind |-> kind])]

addSystemMessage(C, kind) == saveMessage(addMessage(C, kind), kind)

\* connect() from `this.isConnected = true` to its return; simulated is
\* what simulateOnlineUsers draws.  The stored chat history is empty.
ChatFinish(C, simulated) ==
    LET C1 == [C EXCEPT !.chatIsConnected = TRUE,
                        !.messages = IF C.currentRoom # Missing THEN 0 ELSE @,
                        !.onlineUsers = @ \cup {C.currentUser},
                        !.pc = "idle"]
    IN  IF ~ C1.webSocketConnected
        THEN [addSystemMessage(C1, "joined") EXCEPT
                 !.onlineUsers = @ \cup (simulated \ {C.currentUser})]
        ELSE C1

\* the promise of connect() on socket k resolves with true
Resolve(C, k) ==
    IF C.sockets[k].awaited
    THEN ChatFinish([C EXCEPT !.sockets[k].awaited = FALSE, !.webSocketConnected = TRUE], {})
    ELSE C

\* the promise of connect() on socket k rejects: the catch block of
\* ChatService.connect, up to the wait for networkDelay
Reject(C, k) ==
    IF C.sockets[k].awaited
    THEN [C EXCEPT !.sockets[k].awaited = FALSE, !.useWebSocket = FALSE,
                   !.webSocketConnected = FALSE, !.pc = "delay"]
    ELSE C

\* the listener onOpen of the promise of connect(), on socket k;
\* this.socket.removeEventListener throws if this.socket is null
onOpen(C, k) ==
    LET C1 == [C EXCEPT !.sockets[k].timeout = FALSE]
    IN  IF C1.socket = NoSocket THEN C1
        ELSE LET C2 == IF C1.socket = k THEN [C1 EXCEPT !.sockets[k].onOpen = FALSE] ELSE C1
                 join == JoinRoomMsg(C.sockets[k].roomCode, C.sockets[k].username)
             IN  Resolve(WsSendMessage(C2, join), k)

onError(C, k) ==
    LET C1 == [C EXCEPT !.sockets[k].timeout = FALSE]
    IN  IF C1.socket = NoSocket THEN C1
        ELSE LET C2 == IF C1.socket = k THEN [C1 EXCEPT !.sockets[k].onOpen = FALSE] ELSE C1
             IN  Reject(C2, k)

\* faulty variant: the room code and the username are not validated
ChatConnect_NoValidation(C, roomCode, username, k) ==
    LET C1 == [C EXCEPT !.currentRoom = StringOf(toUpperCase(CharsOf(roomCode))),
                        !.currentUser = StringOf(Trim(CharsOf(username)))]
    IN  IF C1.useWebSocket
        THEN [WsConnect(C1, k, C1.currentRoom, C1.currentUser) EXCEPT !.sockets[k].awaited = TRUE, !.pc = "ws"]
        ELSE [C1 EXCEPT !.pc = "delay"]

\* connect() up to its first wait; k is the WebSocket it makes
ChatConnect(C, roomCode, username, k) ==
    IF ~ validateRoomCode(roomCode) \/ ~ validateUsername(username) THEN C
    ELSE LET C1 == [C EXCEPT !.currentRoom = StringOf(toUpperCase(CharsOf(roomCode))),
                             !.currentUser = StringOf(Trim(CharsOf(username)))]
         IN  IF C1.useWebSocket
             THEN [WsConnect(C1, k, C1.currentRoom, C1.currentUser) EXCEPT !.sockets[k].awaited = TRUE, !.pc = "ws"]
             ELSE [C1 EXCEPT !.pc = "delay"]

\* the leave message is added when webSocketConnected is false, which
\* the lines before it have made sure of
ChatDisconnect(C) ==
    IF ~ C.chatIsConnected THEN C
    ELSE LET C1 == IF C.webSocketConnected
                   THEN [WsDisconnect(C) EXCEPT !.webSocketConnected = FALSE]
                   ELSE C
             C2 == IF C1.currentUser # Missing /\ C1.currentRoom # Missing
                      /\ ~ C1.webSocketConnected
                   THEN addSystemMessage(C1, "left")
                   ELSE C1
         IN  [C2 EXCEPT !.currentRoom = Missing, !.currentUser = Missing, !.messages = 0,
                        !.onlineUsers = {}, !.typingUsers = {}, !.chatIsConnected = FALSE]

\* sendMessage with a content that is not blank; reply is whether
\* simulateIncomingMessages sets its timer
ChatSendMessage(C, content, reply) ==
    IF ~ C.chatIsConnected \/ Trim(content) = <<>> THEN C
    ELSE IF C.webSocketConnected
         THEN IF CanSend(C)
              THEN saveMessage(addMessage(
                       sendChatMessage(C, Trim(content), C.currentRoom, C.currentUser),
                       "own"), "own")
              ELSE C
         ELSE [saveMessage(addMessage(C, "own"), "own") EXCEPT
                  !.replyTimers = IF reply /\ C.onlineUsers \ {C.currentUser} # {}
                                  THEN @ + 1 ELSE @]

\* the message listener: a chat_message frame of the server
handleWebSocketMessage(C, data) ==
    IF data.username = C.currentUser THEN C
    ELSE saveMessage(addMessage(C, "user"), "user")

\* faulty variant: user_list frames are ignored
handleWebSocketUserChange_NoList(C, data) ==
    CASE data.type = "user_joined" ->
            IF data.username # C.currentUser
            THEN addSystemMessage([C EXCEPT !.onlineUsers = @ \cup {data.username}], "user_joined")
            ELSE C
      [] data.type = "user_left" ->
            IF data.username # C.currentUser
            THEN addSystemMessage([C EXCEPT !.onlineUsers = @ \ {data.username}], "user_left")
            ELSE C
      [] OTHER -> C

\* the user listener: user_joined, user_left and user_list frames
handleWebSocketUserChange(C, data) ==
    CASE data.type = "user_joined" ->
            IF data.username # C.currentUser
            THEN addSystemMessage([C EXCEPT !.onlineUsers = @ \cup {data.username}], "user_joined")
            ELSE C
      [] data.type = "user_left" ->
            IF data.username # C.currentUser
            THEN addSystemMessage([C EXCEPT !.onlineUsers = @ \ {data.username}], "user_left")
            ELSE C
      [] data.type = "user_list" -> [C EXCEPT !.onlineUsers = Range(data.users)]
      [] OTHER -> C

\* the typing listener
handleWebSocketTyping(C, data) ==
    IF data.username = C.currentUser THEN C
    ELSE IF data.isTyping
         THEN [C EXCEPT !.typingUsers = @ \cup {data.username}]
         ELSE [C EXCEPT !.typingUsers = @ \ {data.username}]

\* WebSocketService.handleMessage on socket k, with the listeners ChatService
\* has registered.  room_joined is only logged; the socket remembers that
\* it came.  connected and error frames change nothing.
WsHandleMessage(C, k, data) ==
    CASE data.type = "chat_message" -> handleWebSocketMessage(C, data)
      [] data.type \in {"user_joined", "user_left", "user_list"} ->
            handleWebSocketUserChange(C, data)
      [] data.type = "typing" -> handleWebSocketTyping(C, data)
      [] data.type = "room_joined" -> [C EXCEPT !.sockets[k].join = "acked"]
      [] data.type = "pong" -> handlePong(C)
      [] OTHER -> C

\* the callback of the timer of simulateIncomingMessages
simulatedReply(C) ==
    saveMessage(addMessage([C EXCEPT !.replyTimers = @ - 1], "reply"), "reply")

startTyping(C) ==
    IF C.chatIsConnected /\ C.webSocketConnected
    THEN sendTypingIndicator(C, TRUE, C.currentRoom, C.currentUser)
    ELSE C

----------------------------------------------------------------------------
(* The state machine *)

\* removed is a history of the rooms deleted; it is kept only in the
\* behaviours that start with observing = TRUE
Removed(old, before, after) ==
    IF observing THEN old \cup (DOMAIN before \ DOMAIN after) ELSE old

\* wasIn, wasNamed: the room and the name the clients table gave ws when
\* the handler started
In(kind, ws, msg) ==
    [kind |-> kind, ws |-> ws, msg |-> msg,
     wasIn |-> IF ws \in DOMAIN clients THEN clients[ws].roomCode ELSE Missing,
     wasNamed |-> IF ws \in DOMAIN clients THEN clients[ws].username ELSE Missing]

Server == [rooms |-> rooms, clients |-> clients, out |-> <<>>]

ServerInit(history) ==
    /\ rooms = <<>>
    /\ clients = <<>>
    /\ readyState = [c \in Sessions |-> "CLOSED"]
    /\ now = 0
    /\ sent = <<>>
    /\ lastIn = [kind |-> "init", ws |-> NoClient, msg |-> Msg,
                 wasIn |-> Missing, wasNamed |-> Missing]
    /\ removed = {}
    /\ observing = history

\* the participant's socket LinkedSocket is the server's connection
\* LinkedSession when linked; otherwise the two run apart
LinkedSession == "c1"
LinkedSocket == 1
LinkInit(on) ==
    /\ inbox = <<>>
    /\ outbox = <<>>
    /\ linked = on

InitWith(history) == ServerInit(history) /\ ClientInit /\ LinkInit(FALSE)

\* the events of the frames in out that are written to the participant
Arriving(out) ==
    LET mine == SelectSeq(out, LAMBDA f : f.to = LinkedSession)
    IN  [i \in 1..Len(mine) |-> mine[i].ev]

\* the frames a handler has written to the participant are on their way
Deliver ==
    /\ inbox' = IF linked THEN inbox \o Arriving(sent') ELSE inbox
    /\ UNCHANGED <<outbox, linked>>

\* the frames a step of the participant has written are on their way
Leaving(out) ==
    LET mine == SelectSeq(out, LAMBDA f : f.socket = LinkedSocket)
    IN  [i \in 1..Len(mine) |-> mine[i].msg]

Init == InitWith(FALSE)
InitHistory == InitWith(TRUE)

\* wss.on('connection'): a new connection object is accepted
Connect(ws) ==
    /\ readyState[ws] = "CLOSED"
    /\ readyState' = [readyState EXCEPT ![ws] = "OPEN"]
    /\ sent' = <<[to |-> ws, ev |-> ConnectedEv]>>
    /\ lastIn' = In("connect", ws, Msg)
    /\ UNCHANGED <<rooms, clients, now, removed, observing, cvars>>
    /\ Deliver

\* ws.on('message') with a frame JSON.parse accepts.  Frames buffered before
\* the 'close' event are still handled while the connection is CLOSING;
\* send and broadcastToRoom then skip it.
OnMessage(ws, message, generated) ==
    /\ readyState[ws] \in {"OPEN", "CLOSING"}
    /\ linked /\ ws = LinkedSession => outbox # <<>> /\ message = Head(outbox)
    /\ LET S == handleMessage(Server, ws, message, generated)
       IN  /\ rooms' = S.rooms
           /\ clients' = S.clients
           /\ sent' = S.out
           /\ removed' = Removed(removed, rooms, rooms')
    /\ lastIn' = In("message", ws, message)
    /\ UNCHANGED <<readyState, now, observing, cvars, linked>>
    /\ inbox' = IF linked THEN inbox \o Arriving(sent') ELSE inbox
    /\ outbox' = IF linked /\ ws = LinkedSession THEN Tail(outbox) ELSE outbox

\* faulty variant: the connection is terminated after the error is sent
OnBadFrame_Closes(ws) ==
    /\ readyState[ws] \in {"OPEN", "CLOSING"}
    /\ sent' = sendError(<<>>, ws, "Invalid message format")
    /\ readyState' = [readyState EXCEPT ![ws] = "CLOSING"]
    /\ lastIn' = In("badframe", ws, Msg)
    /\ UNCHANGED <<rooms, clients, now, removed, observing, cvars>>
    /\ Deliver

\* ws.on('message') with a frame JSON.parse rejects
OnBadFrame(ws) ==
    /\ readyState[ws] \in {"OPEN", "CLOSING"}
    /\ LET out == sendError(<<>>, ws, "Invalid message format")
       IN  /\ sent' = out
           /\ lastIn' = In("badframe", ws, Msg)
    /\ UNCHANGED <<rooms, clients, readyState, now, removed, observing, cvars>>
    /\ Deliver

\* the peer sends a close frame or the socket fails: the connection is
\* CLOSING until its 'close' event is emitted
BeginClose(ws) ==
    /\ readyState[ws] = "OPEN"
    /\ readyState' = [readyState EXCEPT ![ws] = "CLOSING"]
    /\ sent' = <<>>
    /\ lastIn' = In("closing", ws, Msg)
    /\ UNCHANGED <<rooms, clients, now, removed, observing, cvars>>
    /\ Deliver

\* ws.on('close')
OnClose(ws) ==
    /\ readyState[ws] = "CLOSING"
    /\ readyState' = [readyState EXCEPT ![ws] = "CLOSED"]
    /\ LET S == handleDisconnection(Server, ws)
       IN  /\ rooms' = S.rooms
           /\ clients' = S.clients
           /\ sent' = S.out
           /\ removed' = Removed(removed, rooms, rooms')
    /\ lastIn' = In("close", ws, Msg)
    /\ UNCHANGED <<now, observing, cvars>>
    /\ Deliver

\* faulty variant: a connection is terminated as soon as the timeout is reached
Stale_AtTimeout(cls, t) == {c \in DOMAIN cls : t - cls[c].lastSeen >= Timeout}

\* the connections the cleanup timer terminates
Stale(cls, t) == {c \in DOMAIN cls : t - cls[c].lastSeen > Timeout}

\* the setInterval callback of startCleanupTimer: ws.terminate() on every
\* stale entry of clients; the 'close' event of each follows later
Cleanup ==
    /\ readyState' = [c \in Sessions |->
                        IF c \in Stale(clients, now) /\ readyState[c] # "CLOSED"
                        THEN "CLOSING" ELSE readyState[c]]
    /\ sent' = <<>>
    /\ lastIn' = In("cleanup", NoClient, Msg)
    /\ UNCHANGED <<rooms, clients, now, removed, observing, cvars>>
    /\ Deliver

\* time passes
Tick ==
    /\ \E t \in Times : t > now /\ now' = t
    /\ sent' = <<>>
    /\ lastIn' = In("tick", NoClient, Msg)
    /\ UNCHANGED <<rooms, clients, readyState, removed, observing, cvars>>
    /\ Deliver

\* membership and liveness: joins, pings, closes, the cleanup timer
Next ==
    \/ \E ws \in Sessions : Connect(ws)
    \/ \E ws \in Sessions : \E message \in JoinMsgs(ws) \cup PingMsgs, generated \in GenIds :
          OnMessage(ws, message, generated)
    \/ \E ws \in Sessions : BeginClose(ws)
    \/ \E ws \in Sessions : OnClose(ws)
    \/ Cleanup
    \/ Tick

Spec == Init /\ [][Next]_vars

\* routing: joins, chat and typing frames, closes
NextRoute ==
    \/ \E ws \in Sessions : Connect(ws)
    \/ \E ws \in Sessions :
          \E message \in JoinMsgs(ws) \cup ChatMsgs \cup TypingMsgs, generated \in GenIds :
             OnMessage(ws, message, generated)
    \/ \E ws \in Sessions : BeginClose(ws)
    \/ \E ws \in Sessions : OnClose(ws)

SpecRoute == Init /\ [][NextRoute]_vars

\* membership with the histories recorded: joins and closes
NextHistory ==
    \/ \E ws \in Sessions : Connect(ws)
    \/ \E ws \in Sessions : \E message \in JoinMsgs(ws), generated \in GenIds :
          OnMessage(ws, message, generated)
    \/ \E ws \in Sessions : BeginClose(ws)
    \/ \E ws \in Sessions : OnClose(ws)

SpecHistory == InitHistory /\ [][NextHistory]_vars

\* liveness: the timer callback runs again and again, time passes, and the
\* 'close' event of a connection that is closing is emitted
Fairness ==
    /\ WF_vars(Cleanup)
    /\ WF_vars(Tick)
    /\ \A ws \in Sessions : WF_vars(OnClose(ws))

\* two connections: joins into one room, pings, closes, the cleanup timer
LiveSessions == {"c1", "c2"}
NextLive ==
    \/ \E ws \in LiveSessions : Connect(ws)
    \/ \E ws \in LiveSessions :
          \E message \in OneRoomJoinMsgs(ws) \cup PingMsgs, generated \in GenIds :
             OnMessage(ws, message, generated)
    \/ \E ws \in LiveSessions : BeginClose(ws)
    \/ \E ws \in LiveSessions : OnClose(ws)
    \/ Cleanup
    \/ Tick

SpecLive == Init /\ [][NextLive]_vars /\ Fairness

\* the error paths: refused joins, chat without content, frames from
\* connections that are in no room, unknown types, unparseable frames
NextErrors ==
    \/ \E ws \in Sessions : Connect(ws)
    \/ \E ws \in Sessions :
          \E message \in OneRoomJoinMsgs(ws) \cup InvalidJoinMsgs(ws) \cup BlankChatMsgs
                            \cup OneChatMsgs \cup OneTypingMsgs \cup UnknownMsgs,
             generated \in GenIds :
             OnMessage(ws, message, generated)
    \/ \E ws \in Sessions : OnBadFrame(ws)
    \/ \E ws \in Sessions : BeginClose(ws)
    \/ \E ws \in Sessions : OnClose(ws)

SpecErrors == Init /\ [][NextErrors]_vars

\* attribution: joins into one room, chat and typing frames that name a
\* sender, closes
NextNamed ==
    \/ \E ws \in Sessions : Connect(ws)
    \/ \E ws \in Sessions :
          \E message \in OneRoomJoinMsgs(ws) \cup NamedMsgs, generated \in GenIds :
             OnMessage(ws, message, generated)
    \/ \E ws \in Sessions : BeginClose(ws)
    \/ \E ws \in Sessions : OnClose(ws)

SpecNamed == Init /\ [][NextNamed]_vars

\* signs of life: two connections that join one room, post, type and
\* ping while time passes and the cleanup timer runs
NextSeen ==
    \/ \E ws \in LiveSessions : Connect(ws)
    \/ \E ws \in LiveSessions :
          \E message \in OneRoomJoinMsgs(ws) \cup OneChatMsgs \cup OneTypingMsgs \cup PingMsgs,
             generated \in GenIds :
             OnMessage(ws, message, generated)
    \/ \E ws \in LiveSessions : BeginClose(ws)
    \/ \E ws \in LiveSessions : OnClose(ws)
    \/ Cleanup
    \/ Tick

SpecSeen == Init /\ [][NextSeen]_vars

----------------------------------------------------------------------------
(* The client's steps: the calls of the application, the events of its     *)
(* WebSocket objects and its timers.  Each runs to completion, with the    *)
(* promise reactions that follow it, on the browser's event loop.          *)

Step(C, kind, k, ret) ==
    /\ sockets' = C.sockets
    /\ socket' = C.socket
    /\ isConnected' = C.isConnected
    /\ reconnectAttempts' = C.reconnectAttempts
    /\ heartbeatInterval' = C.heartbeatInterval
    /\ heartbeatTimeout' = C.heartbeatTimeout
    /\ reconnectTimers' = C.reconnectTimers
    /\ useWebSocket' = C.useWebSocket
    /\ webSocketConnected' = C.webSocketConnected
    /\ chatIsConnected' = C.chatIsConnected
    /\ currentRoom' = C.currentRoom
    /\ currentUser' = C.currentUser
    /\ onlineUsers' = C.onlineUsers
    /\ typingUsers' = C.typingUsers
    /\ messages' = C.messages
    /\ replyTimers' = C.replyTimers
    /\ pc' = C.pc
    /\ wire' = C.wire
    /\ saved' = C.saved
    /\ lastEv' = [kind |-> kind, socket |-> k, ret |-> ret]
    /\ inbox' = C.inbox
    /\ outbox' = IF linked THEN outbox \o Leaving(C.wire) ELSE outbox
    /\ UNCHANGED <<svars, linked>>


\* the calls the application makes
UserCodes == {"ab12cd", "XY"}
UserNames == {"Alice", "A@"}
ServerFrames == {RoomJoinedEv("AB12CD", "Alice"), PongEv}
\* the frames that add a message to the list of a participant named username
Shown(data, username) ==
    /\ data.type \in {"chat_message", "user_joined", "user_left"}
    /\ data.username # username
\* what simulateOnlineUsers draws: one to three of simulatedUsers
Draws == {{"Alice"}, {"Alice", "Bob"}}

Created == {k \in SocketIds : sockets[k].readyState # "NONE"}

\* chatService.connect(roomCode, username), called when no connect is under way
UserConnect(roomCode, username) ==
    /\ pc = "idle"
    /\ useWebSocket => Cardinality(Created) < MaxSockets
    /\ LET k == IF useWebSocket THEN Cardinality(Created) + 1 ELSE MaxSockets
           C == ChatConnect(Client, roomCode, username, k)
       IN  Step(C, "connect", IF C.pc = "ws" THEN k ELSE NoSocket,
                IF C.pc = "idle" THEN "false" ELSE "none")

\* chatService.disconnect()
UserDisconnect == Step(ChatDisconnect(Client), "disconnect", NoSocket, "none")

\* chatService.sendMessage(content)
UserSend ==
    /\ messages < MaxMessages
    /\ \E reply \in BOOLEAN :
          /\ reply => replyTimers < MaxReplies
          /\ \E content \in ValidContents :
                Step(ChatSendMessage(Client, content, reply), "send", NoSocket, "none")

\* chatService.startTyping()
UserTyping == Step(startTyping(Client), "typing", NoSocket, "none")

\* the timer of simulateIncomingMessages fires: addMessage
SimulatedReply ==
    /\ replyTimers > 0
    /\ messages < MaxMessages
    /\ Step(simulatedReply(Client), "reply", NoSocket, "none")

\* the 'open' event of WebSocket k: handleOpen, then onOpen
SocketOpen(k) ==
    /\ sockets[k].readyState = "CONNECTING"
    /\ LET C0 == [Client EXCEPT !.sockets[k].readyState = "OPEN"]
           C1 == IF C0.sockets[k].handlers THEN WsHandleOpen(C0) ELSE C0
           C2 == IF C1.sockets[k].onOpen THEN onOpen(C1, k) ELSE C1
       IN  Step(C2, "open", k, IF pc # "idle" /\ C2.pc = "idle" THEN "true" ELSE "none")

\* the 'error' event of WebSocket k, whose connection failed: handleError
\* (which logs), then onError; the 'close' event follows
SocketError(k) ==
    /\ sockets[k].readyState = "CONNECTING"
    /\ LET C0 == [Client EXCEPT !.sockets[k].readyState = "CLOSING"]
           C1 == IF C0.sockets[k].onOpen THEN onError(C0, k) ELSE C0
       IN  Step(C1, "error", k, "none")

\* the 'close' event of WebSocket k.  An open socket is closed by the
\* server or the network, with any code; a closing one was closed by the
\* client, or failed: its code is 1000 only after close(1000).
SocketClose(k, code) ==
    /\ \/ sockets[k].readyState = "OPEN"
       \/ /\ sockets[k].readyState = "CLOSING"
          /\ code = NormalClosure <=> ~ sockets[k].handlers
    /\ LET C0 == [Client EXCEPT !.sockets[k].readyState = "CLOSED"]
           C1 == IF C0.sockets[k].handlers THEN WsHandleClose(C0, code) ELSE C0
       IN  Step(C1, "close", k, IF code = NormalClosure THEN "normal" ELSE "abnormal")

\* the 10 s timer of the promise of connect() on WebSocket k fires
ConnectTimeout(k) ==
    /\ sockets[k].timeout
    /\ Step(Reject([Client EXCEPT !.sockets[k].timeout = FALSE], k), "timeout", k, "none")

\* the wait for networkDelay in ChatService.connect ends
NetworkDelayDone ==
    /\ pc = "delay"
    /\ \E simulated \in Draws :
          /\ Step(ChatFinish(Client, simulated), "delay", NoSocket, "true")

\* the 'message' event of WebSocket k with a frame of the server
SocketMessage(k, data) ==
    /\ sockets[k].readyState \in {"OPEN", "CLOSING"}
    /\ sockets[k].handlers
    /\ data.type = "room_joined" => sockets[k].join = "sent"
    /\ Shown(data, currentUser) => messages < MaxMessages
    /\ linked => k = LinkedSocket /\ inbox # <<>> /\ data = Head(inbox)
    /\ Step([WsHandleMessage(Client, k, data) EXCEPT !.inbox = IF linked THEN Tail(@) ELSE @],
            data.type, k, "none")

\* the callback of the heartbeat interval (every 30 s; the 5 s timeout of
\* the tick before has fired or was cancelled by then)
HeartbeatTick ==
    /\ heartbeatInterval
    /\ ~ heartbeatTimeout
    /\ Step(IF CanSend(Client)
            THEN [WsSendMessage(Client, [Msg EXCEPT !.type = "ping"]) EXCEPT
                     !.heartbeatTimeout = TRUE]
            ELSE Client,
            "tick", socket, "none")

\* the callback of the heartbeat timeout: this.socket.close()
HeartbeatTimeoutFire ==
    /\ heartbeatTimeout
    /\ LET C0 == [Client EXCEPT !.heartbeatTimeout = FALSE]
           C1 == IF C0.socket = NoSocket THEN C0
                 ELSE [C0 EXCEPT !.sockets[C0.socket].readyState =
                                    IF @ \in {"CONNECTING", "OPEN"} THEN "CLOSING" ELSE @]
       IN  Step(C1, "heartbeatTimeout", socket, "none")

\* the callback of a timer of attemptReconnect: it logs
ReconnectFire(timer) ==
    /\ timer \in reconnectTimers
    /\ Step([Client EXCEPT !.reconnectTimers = @ \ {timer}], "reconnect", NoSocket, "none")

NextClient ==
    \/ \E roomCode \in UserCodes, username \in UserNames : UserConnect(roomCode, username)
    \/ UserDisconnect
    \/ UserSend
    \/ UserTyping
    \/ SimulatedReply
    \/ \E k \in SocketIds : SocketOpen(k)
    \/ \E k \in SocketIds : SocketError(k)
    \/ \E k \in SocketIds, code \in CloseCodes : SocketClose(k, code)
    \/ \E k \in SocketIds : ConnectTimeout(k)
    \/ NetworkDelayDone
    \/ \E k \in SocketIds, data \in ServerFrames : SocketMessage(k, data)
    \/ HeartbeatTick
    \/ HeartbeatTimeoutFire
    \/ \E timer \in reconnectTimers : ReconnectFire(timer)

SpecClient == Init /\ [][NextClient]_vars

\* WebSocketService after connection failures: n sockets in a row have
\* failed before they opened, and the last one is about to get its 'close'
\* event; some of the timers of the earlier attempts have fired.
NewClient ==
    [sockets |-> [k \in SocketIds |-> NoWebSocket], socket |-> NoSocket, isConnected |-> FALSE,
     reconnectAttempts |-> 0, heartbeatInterval |-> FALSE, heartbeatTimeout |-> FALSE,
     reconnectTimers |-> {}, useWebSocket |-> TRUE, webSocketConnected |-> FALSE,
     chatIsConnected |-> FALSE, currentRoom |-> Missing, currentUser |-> Missing,
     onlineUsers |-> {}, typingUsers |-> {}, messages |-> 0, replyTimers |-> 0, pc |-> "idle",
     wire |-> <<>>, saved |-> <<>>]

RECURSIVE Attempted(_)
Attempted(n) ==
    IF n = 0
    THEN [NewClient EXCEPT !.sockets[1] = [NewWebSocket EXCEPT !.readyState = "CLOSING",
                                                            !.onOpen = FALSE,
                                                            !.timeout = FALSE],
                        !.socket = 1]
    ELSE attemptReconnect(Attempted(n - 1))

InitBackoff ==
    /\ ServerInit(FALSE)
    /\ \E n \in 0..maxReconnectAttempts :
          \E pending \in SUBSET Attempted(n).reconnectTimers :
             /\ sockets = Attempted(n).sockets
             /\ socket = Attempted(n).socket
             /\ reconnectAttempts = Attempted(n).reconnectAttempts
             /\ reconnectTimers = pending
    /\ isConnected = FALSE
    /\ heartbeatInterval = FALSE
    /\ heartbeatTimeout = FALSE
    /\ useWebSocket = TRUE
    /\ webSocketConnected = FALSE
    /\ chatIsConnected = FALSE
    /\ currentRoom = Missing
    /\ currentUser = Missing
    /\ onlineUsers = {}
    /\ typingUsers = {}
    /\ messages = 0
    /\ replyTimers = 0
    /\ pc = "idle"
    /\ wire = <<>>
    /\ saved = <<>>
    /\ lastEv = [kind |-> "init", socket |-> NoSocket, ret |-> "none"]
    /\ LinkInit(FALSE)

NextBackoff ==
    \/ \E k \in SocketIds, code \in CloseCodes : SocketClose(k, code)
    \/ \E timer \in reconnectTimers : ReconnectFire(timer)

SpecBackoff == InitBackoff /\ [][NextBackoff]_vars

\* the reconnect budget: after the failures a new connection is made,
\* which opens or fails; connections close, the participant leaves
NextBudget ==
    \/ UserConnect("ab12cd", "Alice")
    \/ UserDisconnect
    \/ \E k \in SocketIds : SocketOpen(k)
    \/ \E k \in SocketIds : SocketError(k)
    \/ \E k \in SocketIds, code \in CloseCodes : SocketClose(k, code)
    \/ \E timer \in reconnectTimers : ReconnectFire(timer)

SpecBudget == InitBackoff /\ [][NextBudget]_vars

\* One participant, one room, and the events of connection loss and
\* recovery.  What the browser schedules happens: a pending timer fires,
\* a connecting socket whose server is reachable opens, a closing socket
\* gets its 'close' event.  What the participant and the network do
\* (leave, join again, drop the connection, answer a ping) may happen or not.
SocketClosed(k) ==
    /\ sockets[k].readyState = "CLOSING"
    /\ \E code \in CloseCodes : SocketClose(k, code)

NextRetry ==
    \/ UserConnect("ab12cd", "Alice")
    \/ UserDisconnect
    \/ \E k \in SocketIds : SocketOpen(k)
    \/ \E k \in SocketIds, code \in CloseCodes : SocketClose(k, code)
    \/ \E k \in SocketIds : ConnectTimeout(k)
    \/ NetworkDelayDone
    \/ \E k \in SocketIds : SocketMessage(k, PongEv)
    \/ HeartbeatTick
    \/ HeartbeatTimeoutFire
    \/ \E timer \in reconnectTimers : ReconnectFire(timer)

ClientFairness ==
    /\ WF_vars(\E timer \in reconnectTimers : ReconnectFire(timer))
    /\ WF_vars(HeartbeatTimeoutFire)
    /\ WF_vars(NetworkDelayDone)
    /\ \A k \in SocketIds : WF_vars(SocketOpen(k))
    /\ \A k \in SocketIds : WF_vars(SocketClosed(k))

SpecRetry == Init /\ [][NextRetry]_vars /\ ClientFairness

\* The participant and the server together.  The participant connects as
\* Alice to room AB12CD over the linked socket, which the server accepts
\* before the socket opens, or which opens after connect() has timed out;
\* every frame either side writes is handled by the other, in order.  A
\* second connection joins the room as Alice or as Bob, posts, types and
\* closes (by itself, or terminated by the cleanup timer).
InitLinked == ServerInit(FALSE) /\ ClientInit /\ LinkInit(TRUE)

OtherSession == "c2"

NextJoint ==
    \/ Created = {} /\ UserConnect("ab12cd", "Alice")
    \/ sockets[LinkedSocket].readyState = "CONNECTING" /\ Connect(LinkedSession)
    \/ readyState[LinkedSession] = "OPEN" /\ SocketOpen(LinkedSocket)
    \/ ConnectTimeout(LinkedSocket)
    \/ NetworkDelayDone
    \/ UserSend
    \/ \E generated \in GenIds :
          outbox # <<>> /\ OnMessage(LinkedSession, Head(outbox), generated)
    \/ inbox # <<>> /\ SocketMessage(LinkedSocket, Head(inbox))
    \/ Len(inbox) < MaxInbox /\ Connect(OtherSession)
    \/ /\ Len(inbox) < MaxInbox
       /\ \E message \in OneRoomJoinMsgs(OtherSession) \cup OneChatMsgs \cup OneTypingMsgs,
             generated \in GenIds :
             OnMessage(OtherSession, message, generated)
    \/ BeginClose(OtherSession)
    \/ Len(inbox) < MaxInbox /\ OnClose(OtherSession)

SpecJoint == InitLinked /\ [][NextJoint]_vars

----------------------------------------------------------------------------
(* Vocabulary of the properties *)

MemberOf(ws, roomCode) == roomCode \in DOMAIN rooms /\ SetHas(rooms[roomCode], ws)
RoomsOf(ws) == {roomCode \in DOMAIN rooms : MemberOf(ws, roomCode)}
Members(roomCode) ==
    IF roomCode \in DOMAIN rooms THEN {rooms[roomCode][i] : i \in 1..Len(rooms[roomCode])}
    ELSE {}

\* the last handler was the one of an accepted join_room
JoinDone ==
    /\ lastIn.kind = "message"
    /\ lastIn.msg.type = "join_room"
    /\ lastIn.msg.roomCode # Missing
    /\ lastIn.msg.username # Missing
\* the last handler was the one of a 'close' event
CloseDone == lastIn.kind = "close"

\* the frames of the last handler written to connection c, in order
SentTo(c) == SelectSeq(sent, LAMBDA f : f.to = c)
Types(frames) == [i \in 1..Len(frames) |-> frames[i].ev.type]
Has(frames, type) == \E i \in 1..Len(frames) : frames[i].ev.type = type
Count(seq, x) == Cardinality({i \in 1..Len(seq) : seq[i] = x})

----------------------------------------------------------------------------
(* C1: in every reachable state a connection is a member of at most one    *)
(* room, and after the handler of an accepted join_room for room R2 the    *)
(* sender is a member of R2 and of no other room (so no longer of the room *)
(* R1 it was in).                                                          *)
C1_AtMostOneRoom ==
    /\ \A ws \in Sessions : Cardinality(RoomsOf(ws)) <= 1
    /\ JoinDone => RoomsOf(lastIn.ws) = {lastIn.msg.roomCode}

\* a connection that was a member of one room has joined another room
C1_Witness ==
    /\ JoinDone
    /\ lastIn.wasIn # Missing
    /\ lastIn.wasIn # lastIn.msg.roomCode
    /\ Members(lastIn.wasIn) # {}
    /\ MemberOf(lastIn.ws, lastIn.msg.roomCode)

----------------------------------------------------------------------------
(* C2: the rooms map never holds a room with zero members: the room is     *)
(* deleted by the handler that removes its last member, so after a close   *)
(* or a room change that leaves a room without members its code is absent  *)
(* from rooms.                                                             *)
C2_NoEmptyRoom ==
    /\ \A roomCode \in DOMAIN rooms : Len(rooms[roomCode]) > 0
    /\ CloseDone => RoomsOf(lastIn.ws) = {}

\* the last member of a room has closed and the room is gone, while
\* another room lives on
C2_Witness ==
    /\ CloseDone
    /\ lastIn.wasIn # Missing
    /\ lastIn.wasIn \notin DOMAIN rooms
    /\ DOMAIN rooms # {}

----------------------------------------------------------------------------
(* C3: a join_room for a room code that no connection is in any more (the  *)
(* room was deleted when its last member left) makes a fresh room: its     *)
(* member set is exactly the joiner, and every user_list sent to the       *)
(* joiner holds the joiner's name and nothing else.                        *)
NobodyIn(roomCode) == \A c \in DOMAIN clients : clients[c].roomCode # roomCode

C3_FreshRoom ==
    [][ (JoinDone' /\ NobodyIn(lastIn'.msg.roomCode)) =>
           /\ rooms'[lastIn'.msg.roomCode] = <<lastIn'.ws>>
           /\ getRoomUsers(rooms', clients', lastIn'.msg.roomCode) = <<lastIn'.msg.username>>
           /\ \A i \in 1..Len(sent') :
                 (sent'[i].to = lastIn'.ws /\ sent'[i].ev.type = "user_list") =>
                    sent'[i].ev.users = <<lastIn'.msg.username>>
           /\ readyState'[lastIn'.ws] = "OPEN" =>
                 \E i \in 1..Len(sent') :
                    sent'[i].to = lastIn'.ws /\ sent'[i].ev.type = "user_list" ]_vars

\* a connection that was in no room has joined, alone, a room whose code
\* was deleted from the registry before, and was sent the user_list
C3_Witness ==
    /\ JoinDone
    /\ lastIn.msg.roomCode \in removed
    /\ lastIn.wasIn = Missing
    /\ rooms[lastIn.msg.roomCode] = <<lastIn.ws>>
    /\ Has(SentTo(lastIn.ws), "user_list")

----------------------------------------------------------------------------
(* C4: after every accepted join_room the member list computed for the     *)
(* room (getRoomUsers, sent as user_list) holds the joiner's display name  *)
(* exactly once, whatever names are already present in the room.           *)
C4_NameOnce ==
    JoinDone =>
       Count(getRoomUsers(rooms, clients, lastIn.msg.roomCode), lastIn.msg.username) = 1

----------------------------------------------------------------------------
(* Membership notifications *)

OpenMembers(roomCode) == {c \in Members(roomCode) : readyState[c] = "OPEN"}
FramesTo(c, type) == SelectSeq(sent, LAMBDA f : f.to = c /\ f.ev.type = type)

\* the frames of an accepted join_room that follow those of leaving the
\* previous room (leaveCurrentRoom writes one user_list per user_left)
JoinPart ==
    LET left == Len(SelectSeq(sent, LAMBDA f : f.ev.type = "user_left"))
    IN  SubSeq(sent, 2 * left + 1, Len(sent))

Stage(type) ==
    CASE type = "room_joined" -> 1
      [] type = "user_joined" -> 2
      [] type = "user_list" -> 3
      [] OTHER -> 0

(* C8: on an accepted join_room the server writes, in this order,          *)
(* room_joined to the origin, user_joined to every other member of the     *)
(* room (never to the origin), and user_list to the whole room, origin     *)
(* included; so the origin is sent room_joined before any user_list and    *)
(* every other member user_joined before the user_list with the new name   *)
(* (each frame to the connections whose transport is open).                *)
C8_JoinOrder ==
    JoinDone =>
       LET ws == lastIn.ws
           roomCode == lastIn.msg.roomCode
           username == lastIn.msg.username
           J == JoinPart
           users == getRoomUsers(rooms, clients, roomCode)
           To(c, type) == SelectSeq(J, LAMBDA f : f.to = c /\ f.ev.type = type)
       IN  /\ \A i \in 1..Len(J) : Stage(J[i].ev.type) > 0
           /\ \A i, j \in 1..Len(J) :
                 Stage(J[i].ev.type) < Stage(J[j].ev.type) => i < j
           /\ readyState[ws] = "OPEN" =>
                 /\ Len(J) > 0
                 /\ J[1] = [to |-> ws, ev |-> RoomJoinedEv(roomCode, username)]
           /\ \A c \in Sessions :
                 /\ Len(To(c, "room_joined")) = IF c = ws /\ readyState[ws] = "OPEN" THEN 1 ELSE 0
                 /\ To(c, "user_joined") =
                       IF c \in OpenMembers(roomCode) \ {ws}
                       THEN <<[to |-> c, ev |-> UserJoinedEv(username)]>> ELSE <<>>
                 /\ c \in OpenMembers(roomCode) <=> Len(To(c, "user_list")) > 0
                 /\ \A i \in 1..Len(To(c, "user_list")) :
                       To(c, "user_list")[i].ev = UserListEv(users)
           /\ Count(users, username) > 0

\* an open connection joined a room in which two other open members sit
C8_Witness ==
    /\ JoinDone
    /\ Cardinality(OpenMembers(lastIn.msg.roomCode)) = 3
    /\ Types(SentTo(lastIn.ws)) = <<"room_joined", "user_list", "user_list">>
    /\ \E c \in Sessions \ {lastIn.ws} : Types(SentTo(c)) = <<"user_joined", "user_list">>

(* C9: every member other than the connection whose event is handled is    *)
(* sent the frames of a join sequence (user_joined, user_list) and of a    *)
(* leave sequence (user_left, user_list) as adjacent pairs, and all these  *)
(* frames stem from the one connection whose join, close or eviction is    *)
(* handled: no frame of another participant's join or leave lies between.  *)
Paired(types) ==
    /\ Len(types) % 2 = 0
    /\ \A k \in 1..Len(types) :
          IF k % 2 = 1 THEN types[k] \in {"user_joined", "user_left"}
          ELSE types[k] = "user_list"

C9_SequencesContiguous ==
    /\ \A c \in Sessions \ {lastIn.ws} : Paired(Types(SentTo(c)))
    /\ \A i \in 1..Len(sent) :
          /\ sent[i].ev.type = "user_joined" =>
                JoinDone /\ sent[i].ev.username = lastIn.msg.username
          /\ sent[i].ev.type = "user_left" =>
                (JoinDone \/ CloseDone) /\ sent[i].ev.username = lastIn.wasNamed

\* one connection moved from a room where a member stays to a room where
\* another member sits: the first was sent user_left and user_list, the
\* second user_joined and user_list
C9_Witness ==
    \E b, c \in Sessions \ {lastIn.ws} :
       /\ Types(SentTo(b)) = <<"user_left", "user_list">>
       /\ Types(SentTo(c)) = <<"user_joined", "user_list">>

(* C10: when the 'close' event of a connection is handled (after a         *)
(* disconnect or an eviction) the connection is in no room and absent from *)
(* the clients table; if it was joined and its room still has members,     *)
(* each remaining member whose transport is open is sent user_left with    *)
(* the departed name and then user_list with the names of the remaining    *)
(* members, and nothing else is sent.                                      *)
C10_CloseLeaves ==
    CloseDone =>
       /\ lastIn.ws \notin DOMAIN clients
       /\ RoomsOf(lastIn.ws) = {}
       /\ IF lastIn.wasIn # Missing /\ lastIn.wasIn \in DOMAIN rooms
          THEN \A c \in Sessions :
                  SentTo(c) =
                     IF c \in OpenMembers(lastIn.wasIn)
                     THEN << [to |-> c, ev |-> UserLeftEv(lastIn.wasNamed)],
                             [to |-> c, ev |-> UserListEv(
                                 getRoomUsers(rooms, clients, lastIn.wasIn))] >>
                     ELSE <<>>
          ELSE sent = <<>>

\* a joined connection closed and the two open members that remain in its
\* room were sent user_left and user_list
C10_Witness ==
    /\ CloseDone
    /\ lastIn.wasIn \in DOMAIN rooms
    /\ Cardinality(OpenMembers(lastIn.wasIn)) = 2
    /\ Len(sent) = 4

----------------------------------------------------------------------------
(* Routing of chat and typing frames *)

\* the last handler was the one of a chat_message that is broadcast
ChatDone ==
    /\ lastIn.kind = "message"
    /\ lastIn.msg.type = "chat_message"
    /\ lastIn.ws \in DOMAIN clients
    /\ Trim(lastIn.msg.content) # <<>>
\* the last handler was the one of a typing frame
TypingDone == lastIn.kind = "message" /\ lastIn.msg.type = "typing"

(* C5: a chat_message with non-empty trimmed content from a joined        *)
(* connection is delivered exactly once to each member of its room whose   *)
(* transport is open, the sender included, and all the delivered events    *)
(* carry one id and one content (the id of the inbound message if it has   *)
(* one, and its trimmed content).                                          *)
C5_ChatToAll ==
    ChatDone =>
       LET roomCode == clients[lastIn.ws].roomCode
       IN  /\ \A c \in OpenMembers(roomCode) : Len(FramesTo(c, "chat_message")) = 1
           /\ Len(sent) = Cardinality(OpenMembers(roomCode))
           /\ \A i, j \in 1..Len(sent) : sent[i].ev = sent[j].ev
           /\ \A i \in 1..Len(sent) :
                 /\ sent[i].ev.type = "chat_message"
                 /\ sent[i].ev.content = Trim(lastIn.msg.content)
                 /\ lastIn.msg.id # Missing => sent[i].ev.id = lastIn.msg.id

\* a chat message was delivered to the three open members of a room, one
\* of them its sender
C5_Witness ==
    /\ ChatDone
    /\ readyState[lastIn.ws] = "OPEN"
    /\ Len(FramesTo(lastIn.ws, "chat_message")) = 1
    /\ Len(sent) = 3

(* C6: a typing event is never delivered to the connection that sent it;   *)
(* when the sender is joined, it is delivered once to every other member   *)
(* of the sender's room whose transport is open.                           *)
C6_TypingNotEchoed ==
    TypingDone =>
       /\ SentTo(lastIn.ws) = <<>>
       /\ lastIn.ws \in DOMAIN clients =>
             \A c \in OpenMembers(clients[lastIn.ws].roomCode) \ {lastIn.ws} :
                /\ Len(FramesTo(c, "typing")) = 1
                /\ FramesTo(c, "typing")[1].ev.isTyping = lastIn.msg.isTyping

\* an open, joined connection sent a typing frame and the two other
\* members of its room were sent it
C6_Witness ==
    /\ TypingDone
    /\ lastIn.ws \in DOMAIN clients
    /\ readyState[lastIn.ws] = "OPEN"
    /\ Cardinality(OpenMembers(clients[lastIn.ws].roomCode)) = 3
    /\ Len(sent) = 2

(* C7: room isolation: a chat_message or typing event is delivered only to *)
(* members of the room the server has its sender in, never to a connection *)
(* in another room or in no room, whatever roomCode the inbound message    *)
(* names.                                                                  *)
C7_RoomIsolation ==
    (lastIn.kind = "message" /\ lastIn.msg.type \in {"chat_message", "typing"}) =>
       \A i \in 1..Len(sent) :
          sent[i].ev.type \in {"chat_message", "typing"} =>
             /\ lastIn.ws \in DOMAIN clients
             /\ MemberOf(sent[i].to, clients[lastIn.ws].roomCode)

\* a chat message that names another room than the sender's, in which an
\* open connection sits, was delivered in the sender's room
C7_Witness ==
    /\ ChatDone
    /\ lastIn.msg.roomCode # clients[lastIn.ws].roomCode
    /\ OpenMembers(lastIn.msg.roomCode) # {}
    /\ Len(sent) = 2

----------------------------------------------------------------------------
(* Error paths *)

\* the last handler was the one of a join_room whose room code or display
\* name the validators refuse
InvalidJoinDone ==
    /\ lastIn.kind = "message"
    /\ lastIn.msg.type = "join_room"
    /\ ~ (validateRoomCode(lastIn.msg.roomCode) /\ validateUsername(lastIn.msg.username))

\* the one frame an error reply to connection ws consists of, if any
ErrorOnlyTo(ws, frames) ==
    /\ Len(frames) = 1
    /\ frames[1].to = ws
    /\ frames[1].ev.type = "error"

(* C11: a join_room whose roomCode is not 6 alphanumeric characters or     *)
(* whose username is not 1 to 20 characters of letters, digits, space,     *)
(* hyphen, underscore is refused: the rooms map and the clients table stay *)
(* as they were (no room is created, the sender is added to none) and the  *)
(* sender, if its transport is open, is sent one error and nothing else.   *)
C11_JoinValidated ==
    [][ InvalidJoinDone' =>
           /\ rooms' = rooms
           /\ clients' = clients
           /\ readyState[lastIn'.ws] = "OPEN" => ErrorOnlyTo(lastIn'.ws, sent') ]_vars

----------------------------------------------------------------------------
\* two room codes that differ at most in the case of their letters
SameCode(a, b) == toUpperCase(CharsOf(a)) = toUpperCase(CharsOf(b))

(* C12: room codes are case-insensitive and stored in upper case: every    *)
(* key of the rooms map is in upper case, two joined connections whose     *)
(* room codes differ only in the case of letters are members of one room,  *)
(* and a chat message of one is delivered to the other (if its transport   *)
(* is open).                                                               *)
C12_CaseInsensitive ==
    /\ \A roomCode \in DOMAIN rooms : CharsOf(roomCode) = toUpperCase(CharsOf(roomCode))
    /\ \A a, b \in DOMAIN clients :
          SameCode(clients[a].roomCode, clients[b].roomCode) =>
             \E roomCode \in DOMAIN rooms : MemberOf(a, roomCode) /\ MemberOf(b, roomCode)
    /\ ChatDone =>
          \A c \in DOMAIN clients :
             (readyState[c] = "OPEN"
                /\ SameCode(clients[c].roomCode, clients[lastIn.ws].roomCode)) =>
                Len(FramesTo(c, "chat_message")) = 1

----------------------------------------------------------------------------
\* the last handler was the one of a chat_message whose content is
\* missing, empty or blank
BlankChatDone ==
    /\ lastIn.kind = "message"
    /\ lastIn.msg.type = "chat_message"
    /\ Trim(lastIn.msg.content) = <<>>

(* C13: the handler of a chat_message whose content is missing, empty or   *)
(* only whitespace leaves rooms, clients and every transport as they were  *)
(* (the connection stays open), writes no chat_message, and writes one     *)
(* error, to the sender alone (nothing if the sender's transport is not    *)
(* open).                                                                  *)
C13_BlankChatRejected ==
    [][ BlankChatDone' =>
           /\ UNCHANGED <<rooms, clients, readyState>>
           /\ ~ Has(sent', "chat_message")
           /\ IF readyState[lastIn'.ws] = "OPEN"
              THEN ErrorOnlyTo(lastIn'.ws, sent')
              ELSE sent' = <<>> ]_vars

\* an open connection in a room with two other open members sent a chat
\* message of blanks and was sent the error, the others nothing
C13_Witness ==
    /\ BlankChatDone
    /\ lastIn.msg.content # <<>>
    /\ lastIn.wasIn # Missing
    /\ Cardinality(OpenMembers(lastIn.wasIn)) = 3
    /\ lastIn.ws \in OpenMembers(lastIn.wasIn)
    /\ sent = <<[to |-> lastIn.ws, ev |-> ErrorEv("Message content is required")]>>

----------------------------------------------------------------------------
\* the last handler was the one of a chat_message or typing frame from a
\* connection that was in no room
OutsiderDone ==
    /\ lastIn.kind = "message"
    /\ lastIn.msg.type \in {"chat_message", "typing"}
    /\ lastIn.wasIn = Missing

(* C14: the handler of a chat_message or typing frame from a connection    *)
(* that has joined no room leaves rooms, clients and every transport as    *)
(* they were and delivers nothing to anyone, but for the error 'Not in a   *)
(* room' sent to the sender of a chat_message (if its transport is open);  *)
(* a typing frame is answered with nothing.                                *)
C14_OutsiderNotBroadcast ==
    [][ OutsiderDone' =>
           /\ UNCHANGED <<rooms, clients, readyState>>
           /\ sent' = IF lastIn'.msg.type = "chat_message" /\ readyState[lastIn'.ws] = "OPEN"
                      THEN <<[to |-> lastIn'.ws, ev |-> ErrorEv("Not in a room")]>>
                      ELSE <<>> ]_vars

\* an open connection that is in no room sent a chat message with content,
\* naming a room in which open members sit, and was sent the error
C14_Witness ==
    /\ OutsiderDone
    /\ lastIn.msg.type = "chat_message"
    /\ Trim(lastIn.msg.content) # <<>>
    /\ OpenMembers(lastIn.msg.roomCode) # {}
    /\ sent = <<[to |-> lastIn.ws, ev |-> ErrorEv("Not in a room")]>>

----------------------------------------------------------------------------
\* the last handler was the one of a frame that JSON.parse rejected
BadFrameDone == lastIn.kind = "badframe"

(* C15: the handler of an inbound frame that cannot be parsed leaves       *)
(* rooms, clients and every transport as they were (the connection is not  *)
(* closed) and writes one frame, the error 'Invalid message format', to    *)
(* the sender alone (nothing if the sender's transport is not open).       *)
C15_BadFrameError ==
    [][ BadFrameDone' =>
           /\ UNCHANGED <<rooms, clients, readyState>>
           /\ sent' = IF readyState[lastIn'.ws] = "OPEN"
                      THEN <<[to |-> lastIn'.ws, ev |-> ErrorEv("Invalid message format")]>>
                      ELSE <<>> ]_vars

\* an open connection in a room with two other open members sent an
\* unparseable frame and was sent the error, the others nothing
C15_Witness ==
    /\ BadFrameDone
    /\ lastIn.wasIn # Missing
    /\ Cardinality(OpenMembers(lastIn.wasIn)) = 3
    /\ readyState[lastIn.ws] = "OPEN"
    /\ Len(sent) = 1
    /\ ErrorOnlyTo(lastIn.ws, sent)

\* the last handler was the one of a parsed message whose type the server
\* does not know
UnknownTypeDone == lastIn.kind = "message" /\ lastIn.msg.type \notin KnownTypes

(* C16: the handler of a parsed message whose type is none of join_room,   *)
(* chat_message, typing, ping leaves every transport as it was and writes  *)
(* one error, to the sender alone, if the sender's transport is open.      *)
C16_UnknownTypeError ==
    [][ UnknownTypeDone' =>
           /\ UNCHANGED readyState
           /\ readyState[lastIn'.ws] = "OPEN" => ErrorOnlyTo(lastIn'.ws, sent') ]_vars

----------------------------------------------------------------------------
(* Heartbeat and the cleanup timer *)

\* the last handler was the one of a ping
PingDone == lastIn.kind = "message" /\ lastIn.msg.type = "ping"

(* C17: after the handler of a ping, from a connection in a room or in     *)
(* none, one pong has been written to the sender (if its transport is      *)
(* open) and nothing to anyone else, and the lastSeen the server keeps for *)
(* the sender is the current time.                                         *)
C17_PingPong ==
    PingDone =>
       /\ sent = IF readyState[lastIn.ws] = "OPEN"
                 THEN <<[to |-> lastIn.ws, ev |-> PongEv]>> ELSE <<>>
       /\ lastIn.ws \in DOMAIN clients
       /\ clients[lastIn.ws].lastSeen = now

----------------------------------------------------------------------------
\* the last handler was the callback of the cleanup timer
ScanDone == lastIn.kind = "cleanup"
\* the server has heard nothing of joined connection c for longer than the timeout
Silent(c) == c \in DOMAIN clients /\ now - clients[c].lastSeen > Timeout

(* C18: a run of the cleanup timer closes the transport of every joined    *)
(* connection whose (now - lastSeen) exceeds the timeout and of no other   *)
(* connection, and changes neither rooms nor clients itself; the leave     *)
(* processing is that of the 'close' event, which follows: a joined        *)
(* connection that is silent for longer than the timeout is in the end     *)
(* removed from the clients table (and with it from its room), unless the  *)
(* server hears of it before.                                              *)
C18_ScanEvictsSilent ==
    /\ [][ ScanDone' =>
             /\ \A c \in Sessions :
                   IF Silent(c) THEN readyState'[c] = "CLOSING"
                   ELSE readyState'[c] = readyState[c]
             /\ UNCHANGED <<rooms, clients>> ]_vars
    /\ \A c \in Sessions : Silent(c) ~> ~ Silent(c)
    /\ [](\A c \in Sessions : c \notin DOMAIN clients => RoomsOf(c) = {})

\* the timer ran when one member of a room had been silent for longer
\* than the timeout and another had not: the first is closing, the second
\* still open
C18_Witness ==
    /\ ScanDone
    /\ \E b, c \in DOMAIN clients :
          /\ Silent(b)
          /\ readyState[b] = "CLOSING"
          /\ ~ Silent(c)
          /\ readyState[c] = "OPEN"
          /\ clients[b].roomCode = clients[c].roomCode

\* the server is handling, or has just handled, a frame of connection c
Spoke(c) == lastIn.ws = c /\ lastIn.kind \in {"message", "badframe"}
\* connection c was accepted and has joined no room
Unjoined(c) == readyState[c] = "OPEN" /\ c \notin DOMAIN clients

(* C19: a connection that is accepted at time 0, joins no room and sends   *)
(* nothing is closed in the end by the cleanup timer: from a state in      *)
(* which it is open and unjoined at time 0 a state is reached in which it  *)
(* is no longer open, or it has sent a frame.                              *)
C19_UnjoinedEvicted ==
    \A c \in Sessions :
       (now = 0 /\ Unjoined(c)) ~> (readyState[c] # "OPEN" \/ Spoke(c))

----------------------------------------------------------------------------
(* C20: every frame a handler writes goes to a connection whose transport  *)
(* is open; a chat message is still delivered, once, to every member of    *)
(* the sender's room whose transport is open when other members of the     *)
(* room are closing.                                                       *)
C20_OnlyOpenWritten ==
    /\ \A i \in 1..Len(sent) : readyState[sent[i].to] = "OPEN"
    /\ ChatDone =>
          \A c \in Sessions :
             Len(FramesTo(c, "chat_message")) =
                IF c \in OpenMembers(clients[lastIn.ws].roomCode) THEN 1 ELSE 0

\* a chat message was broadcast in a room of three members of which one is
\* closing: the two open ones were sent it, the closing one nothing
C20_Witness ==
    /\ ChatDone
    /\ Cardinality(Members(clients[lastIn.ws].roomCode)) = 3
    /\ \E c \in Members(clients[lastIn.ws].roomCode) :
          readyState[c] = "CLOSING" /\ SentTo(c) = <<>>
    /\ Len(sent) = 2
----------------------------------------------------------------------------
(* Vocabulary of the client's properties *)

\* the states of the participant's connection
Connected == isConnected
\* ChatService.connect returned true in the last step
ConnectReturnedTrue == lastEv.ret = "true"
\* the server's room_joined was received on the WebSocket in use
JoinAcked == socket # NoSocket /\ sockets[socket].join = "acked"
\* the chat service is in simulation mode for good
SimulationFallback == ~ useWebSocket
\* a timer of attemptReconnect is pending
ReconnectPending == reconnectTimers # {}

----------------------------------------------------------------------------
(* C21: the client is Connected (isConnected true, the heartbeat running,  *)
(* connect() resolved with true) only once room_joined was received on its *)
(* socket: in no reachable state is it Connected before that.              *)
C21_ConnectedOnJoinAck == Connected => JoinAcked

----------------------------------------------------------------------------
(* C22: when the WebSocket connect of ChatService.connect failed (timeout  *)
(* or transport error before the open), connect still returns true, with   *)
(* ChatService.isConnected = true and webSocketConnected = false, and the  *)
(* participant has the locally generated view: the 'joined' system message *)
(* and itself among the online users.                                      *)
FallbackReturned == lastEv.kind = "delay" /\ lastEv.ret = "true"

C22_FallbackIsSimulated ==
    FallbackReturned =>
        /\ chatIsConnected
        /\ ~ webSocketConnected
        /\ messages >= 1
        /\ currentUser \in onlineUsers

----------------------------------------------------------------------------
(* C23: once the chat service has fallen back to simulation, the client    *)
(* writes nothing to any WebSocket: no join_room, ping, chat_message or    *)
(* typing frame, also when the abandoned socket opens late or its close    *)
(* event follows the connect error.                                        *)
C23_FallbackIsSilent == SimulationFallback => wire = <<>>

----------------------------------------------------------------------------
(* C24: a Connected client whose transport closes with a code other than   *)
(* 1000 is Reconnecting, and that ends: it gets Connected again or, the    *)
(* retry budget spent, falls back to simulation, unless the participant    *)
(* leaves the room.  It never gets Disconnected by itself.                 *)
\* the connection of a participant in a room was lost
Lost == chatIsConnected /\ useWebSocket /\ ~ isConnected /\ reconnectAttempts > 0

C24_ReconnectingEnds == Lost ~> (Connected \/ SimulationFallback \/ ~ chatIsConnected)

----------------------------------------------------------------------------
(* C25: after the connection of a participant in a room was lost, with the *)
(* server reachable (a socket that is opened does open), the client gets   *)
(* a connection again and sends join_room on it again, unless the          *)
(* participant leaves the room.                                            *)
JoinSent == \E i \in 1..Len(wire) : wire[i].type = "join_room"

C25_RejoinsAfterLoss == Lost ~> (JoinSent \/ ~ chatIsConnected)

----------------------------------------------------------------------------
(* C26: the delay of the timer set for reconnect attempt n, n from 1 to    *)
(* maxReconnectAttempts, is reconnectDelay * 2^(n-1): 1000, 2000, 4000,    *)
(* 8000 and 16000 ms, without a cap.                                       *)
BackoffTable == <<1000, 2000, 4000, 8000, 16000>>

AttemptMade == lastEv'.kind = "close" /\ reconnectAttempts' = reconnectAttempts + 1

C26_BackoffDoubles ==
    [][AttemptMade =>
          /\ reconnectAttempts' \in 1..maxReconnectAttempts
          /\ reconnectTimers' = reconnectTimers \cup
                {[attempt |-> reconnectAttempts',
                  delay |-> BackoffTable[reconnectAttempts']]}]_vars

\* the fifth attempt was scheduled, 16 s ahead
C26_Witness ==
    /\ lastEv.kind = "close"
    /\ reconnectAttempts = maxReconnectAttempts
    /\ \E t \in reconnectTimers : t.attempt = maxReconnectAttempts /\ t.delay = 16000

----------------------------------------------------------------------------
(* C27: after a ping of the Connected client, if the heartbeat timeout     *)
(* passes without a pong the client closes its transport and leaves the    *)
(* Connected state; if a pong comes while the timeout is pending, the      *)
(* timeout is cancelled and the client stays Connected.                    *)
HeartbeatTimedOut == lastEv.kind = "heartbeatTimeout"

ForceClosed == socket # NoSocket /\ sockets[socket].readyState = "CLOSING"

C27_HeartbeatSupervises ==
    /\ [][HeartbeatTimedOut' => ForceClosed']_vars
    /\ HeartbeatTimedOut ~> ~ Connected
    /\ [][(lastEv'.kind = "pong" /\ heartbeatTimeout) =>
             /\ ~ heartbeatTimeout'
             /\ Connected'
             /\ heartbeatInterval'
             /\ sockets' = sockets]_vars

\* the timeout has passed and the client has closed its socket
C27_Witness == HeartbeatTimedOut /\ ForceClosed /\ Connected

----------------------------------------------------------------------------
(* C28: once ChatService.disconnect has torn the connection down, no       *)
(* callback of the heartbeat interval, of the heartbeat timeout or of a    *)
(* reconnect timer runs, whatever the state was that the participant left  *)
(* from (connected, or connection lost with a reconnect pending).          *)
TornDown == ~ chatIsConnected /\ pc = "idle"

TimerKinds == {"tick", "heartbeatTimeout", "reconnect"}

C28_NoTimerAfterTeardown == [][TornDown => lastEv'.kind \notin TimerKinds]_vars

----------------------------------------------------------------------------
(* C29: in every reachable state at most one of these holds: a heartbeat   *)
(* timer is active, a reconnect timer is pending, the chat service is in   *)
(* simulation mode.                                                        *)
HeartbeatActive == heartbeatInterval \/ heartbeatTimeout

C29_OneLogicAtATime ==
    /\ ~ (HeartbeatActive /\ ReconnectPending)
    /\ ~ (HeartbeatActive /\ SimulationFallback)
    /\ ~ (ReconnectPending /\ SimulationFallback)

----------------------------------------------------------------------------
(* C30: ChatService.connect with a room code that is not six alphanumeric  *)
(* characters, or a username that is not 1 to 20 letters, digits, spaces,  *)
(* hyphens or underscores after trimming, returns false, opens no          *)
(* transport and leaves currentRoom, currentUser, isConnected, messages    *)
(* and onlineUsers as they were.                                           *)
InvalidConnect ==
    /\ lastEv'.kind = "connect"
    /\ \E roomCode \in UserCodes, username \in UserNames :
        /\ ~ validateRoomCode(roomCode) \/ ~ validateUsername(username)
        /\ UserConnect(roomCode, username)

----------------------------------------------------------------------------
(* C31: a join_room without a roomCode or without a username changes       *)
(* nothing: rooms and clients stay as they were (a sender that is in a     *)
(* room stays a member of it), and the only frame written is one error to  *)
(* the sender, if its transport is open: no user_left, user_joined or      *)
(* user_list goes to anyone.                                               *)
IncompleteJoinDone ==
    /\ lastIn.kind = "message"
    /\ lastIn.msg.type = "join_room"
    /\ lastIn.msg.roomCode = Missing \/ lastIn.msg.username = Missing

C31_IncompleteJoinRefused ==
    [][IncompleteJoinDone' =>
          /\ rooms' = rooms
          /\ clients' = clients
          /\ IF readyState[lastIn'.ws] = "OPEN"
             THEN ErrorOnlyTo(lastIn'.ws, sent')
             ELSE sent' = <<>>]_vars

\* the sender was in a room with somebody else, and still is
C31_Witness ==
    /\ IncompleteJoinDone
    /\ lastIn.wasIn # Missing
    /\ MemberOf(lastIn.ws, lastIn.wasIn)
    /\ \E c \in OpenMembers(lastIn.wasIn) : c # lastIn.ws
    /\ ErrorOnlyTo(lastIn.ws, sent)

----------------------------------------------------------------------------
(* C33: every chat_message and typing event the server writes carries the  *)
(* display name its sender registered with its last accepted join_room,    *)
(* whatever the username field of the inbound frame says.                  *)
Attributed(frames, type, username) ==
    \A i \in 1..Len(frames) : frames[i].ev.type = type /\ frames[i].ev.username = username

C33_NamedAsJoined ==
    [][/\ ChatDone' => Attributed(sent', "chat_message", lastIn'.wasNamed)
       /\ TypingDone' => Attributed(sent', "typing", lastIn'.wasNamed)]_vars

\* a chat frame that names somebody else was broadcast under the sender's name
C33_Witness ==
    /\ ChatDone
    /\ lastIn.msg.username \notin {Missing, lastIn.wasNamed}
    /\ \E i \in 1..Len(sent) : sent[i].to # lastIn.ws
    /\ Attributed(sent, "chat_message", lastIn.wasNamed)

----------------------------------------------------------------------------
(* C34: after every handler of the server the two registries agree: a      *)
(* connection is in the set rooms[R] exactly if the clients table has an   *)
(* entry for it with roomCode R; no connection is in two room sets, and    *)
(* every entry of clients names a room that exists and contains the        *)
(* connection.                                                             *)
C34_RegistriesAgree ==
    /\ \A roomCode \in DOMAIN rooms, c \in Sessions :
          SetHas(rooms[roomCode], c) <=> (c \in DOMAIN clients /\ clients[c].roomCode = roomCode)
    /\ \A c \in Sessions : Cardinality(RoomsOf(c)) <= 1
    /\ \A c \in DOMAIN clients :
          /\ clients[c].roomCode \in DOMAIN rooms
          /\ SetHas(rooms[clients[c].roomCode], c)

\* a member has moved from one room to another, and both rooms exist
C34_Witness ==
    /\ JoinDone
    /\ lastIn.wasIn \notin {Missing, lastIn.msg.roomCode}
    /\ lastIn.wasIn \in DOMAIN rooms
    /\ MemberOf(lastIn.ws, lastIn.msg.roomCode)

----------------------------------------------------------------------------
(* C39: only join_room and ping change a connection's lastSeen: the        *)
(* handlers of chat_message and typing leave the clients table as it was.  *)
(* So a member that posts but has neither joined nor pinged for longer     *)
(* than the timeout is terminated by the next scan of the cleanup timer.   *)
Posted == lastIn.kind = "message" /\ lastIn.msg.type \in {"chat_message", "typing"}

SeenChanged(c) ==
    /\ c \in DOMAIN clients
    /\ c \in DOMAIN clients'
    /\ clients'[c].lastSeen # clients[c].lastSeen

C39_PostingIsNoSignOfLife ==
    [][/\ Posted' => clients' = clients
       /\ \A c \in Sessions :
             SeenChanged(c) => /\ lastIn'.kind = "message"
                               /\ lastIn'.ws = c
                               /\ lastIn'.msg.type \in {"join_room", "ping"}
       /\ ScanDone' => \A c \in Sessions : Silent(c) => readyState'[c] # "OPEN"]_vars

\* a member has posted after its last sign of life had become older than
\* the timeout: it is still as stale as before, and the next scan takes it
C39_Witness ==
    /\ Posted
    /\ Silent(lastIn.ws)
    /\ readyState[lastIn.ws] = "OPEN"
    /\ \E i \in 1..Len(sent) : sent[i].ev.type = "chat_message"


(* C32: ChatService.disconnect from a session connected over WebSocket     *)
(* adds no '<user> left the room' message: none is appended to the         *)
(* message list and none is saved to the history.  The local leave message *)
(* belongs to the sessions without WebSocket only.                         *)
LeftKinds(entries) == {i \in 1..Len(entries) : entries[i].kind = "left"}
LeavingOverWebSocket == chatIsConnected /\ webSocketConnected
C32_NoLeaveMessageOverWebSocket ==
    [][lastEv'.kind = "disconnect" /\ LeavingOverWebSocket => LeftKinds(saved') = {}]_vars

----------------------------------------------------------------------------
(* C37: after ChatService.disconnect has returned and until the next       *)
(* connect, the message list stays empty and no message is saved to the    *)
(* history: no timer of a simulated response and no other pending callback *)
(* adds a message after the teardown.                                      *)
C37_QuietAfterTeardown ==
    [][TornDown /\ TornDown' => messages' = 0 /\ saved' = <<>>]_vars

----------------------------------------------------------------------------
(* C40: in every reachable state of the client 0 <= reconnectAttempts <=   *)
(* maxReconnectAttempts.  The counter grows only by one, in the handling   *)
(* of a close whose code is not 1000 and with the counter below the        *)
(* maximum; it is 0 after every open of the transport and after            *)
(* disconnect().                                                           *)
CounterInRange == reconnectAttempts \in 0..maxReconnectAttempts

CounterStep ==
    /\ reconnectAttempts' > reconnectAttempts =>
          /\ lastEv'.kind = "close"
          /\ lastEv'.ret = "abnormal"
          /\ reconnectAttempts < maxReconnectAttempts
          /\ reconnectAttempts' = reconnectAttempts + 1
    /\ lastEv'.kind = "open" /\ sockets[lastEv'.socket].handlers => reconnectAttempts' = 0
    /\ lastEv'.kind = "disconnect" /\ chatIsConnected /\ webSocketConnected =>
          reconnectAttempts' = 0

C40_ReconnectBudget == [] CounterInRange /\ [][CounterStep]_vars

\* a close was handled with the budget used up
C40_Witness ==
    /\ lastEv.kind = "close"
    /\ lastEv.ret = "abnormal"
    /\ sockets[lastEv.socket].handlers
    /\ reconnectAttempts = maxReconnectAttempts

----------------------------------------------------------------------------
(* C36: in every quiescent state, where every frame written by the server  *)
(* or by the participant has been handled, the onlineUsers of a            *)
(* participant connected over WebSocket is the set of the display names of *)
(* the member sessions of its room on the server, whatever joins, leaves   *)
(* and evictions of others came before.                                    *)
Quiescent == inbox = <<>> /\ outbox = <<>>

ConnectedOverWebSocket == chatIsConnected /\ webSocketConnected

NamesIn(roomCode) == {clients[c].username : c \in Range(rooms[roomCode])}

C36_OnlineUsersFollowRoom ==
    Quiescent /\ ConnectedOverWebSocket =>
        /\ LinkedSession \in DOMAIN clients
        /\ onlineUsers = NamesIn(clients[LinkedSession].roomCode)

\* another member has joined and left again, or has been renamed by a
\* second join, and the participant's view has followed
C36_Witness ==
    /\ Quiescent
    /\ ConnectedOverWebSocket
    /\ lastEv.kind = "user_list"
    /\ messages = MaxMessages
    /\ onlineUsers = {"Alice"}
    /\ NamesIn(clients[LinkedSession].roomCode) = {"Alice"}

----------------------------------------------------------------------------
(* C35: of two participants connected over WebSocket to one room, whatever *)
(* their display names, a chat message of one is exactly once in the list  *)
(* of each: the sender adds it when it is sent and does not add the echo   *)
(* of the server again, the other adds it once when the frame arrives.     *)
OwnEcho(data) == data.type = "chat_message" /\ data.id = OwnId

ChatSent == lastEv'.kind = "send" /\ Len(outbox') > Len(outbox)

ChatArrived == lastEv'.kind = "chat_message" /\ inbox # <<>>

C35_EachChatOnce ==
    [][/\ ChatSent => messages' = messages + 1
       /\ ChatArrived =>
             messages' = IF OwnEcho(Head(inbox)) THEN messages ELSE messages + 1]_vars

----------------------------------------------------------------------------
(* C38: a participant who is shown as typing and then leaves is no longer  *)
(* in typingUsers once the user_left and the user_list without the name    *)
(* have been handled: with every frame handled, typingUsers is a subset of *)
(* onlineUsers.                                                            *)
C38_TypingUsersAreOnline ==
    Quiescent /\ ConnectedOverWebSocket => typingUsers \subseteq onlineUsers

====
